---- MODULE Spec2Model ----
(***************************************************************************)
(* The fiftyeight watchface as a state machine.                            *)
(*                                                                         *)
(* The running program is src/src/c/fiftyeight.c with its widget module    *)
(* src/src/c/widgets.c.  Their globals are the variables below, the        *)
(* window-load, redraw and inbox callbacks are one action each, and a      *)
(* redraw leaves behind the list of draw calls it issued (frame).  The     *)
(* repository also keeps an earlier revision of the renderer               *)
(* (src/unnamed/part_000, lines 346-1399), which draws the two top corners *)
(* itself; it is modelled as a second renderer writing legacy.frame.       *)
(***************************************************************************)
EXTENDS Integers, Sequences, FiniteSets, TLC

VARIABLES
    s_settings,            \* fiftyeight.c:32   static Settings s_settings
    persist,               \* the record stored under SETTINGS_KEY, or NoRecord
    s_settings_dark_mode,  \* fiftyeight.c:28   the widget module's dark flag
    s_widget_config,       \* widgets.c:5
    s_battery_percent,     \* widgets.c:11
    s_step_count,          \* widgets.c:12
    s_step_goal,           \* widgets.c:13
    sprites,               \* the eight GBitmap* globals, by sheet name
    s_debug_counter,       \* fiftyeight.c:14
    s_debug_timer,         \* fiftyeight.c:15   TRUE when a timer is pending
    s_current,             \* fiftyeight.c:264-266  second, minute, hour
    loaded,                \* main_window_load has run
    dirty,                 \* layer_mark_dirty was called since the last redraw
    frame,                 \* what the last canvas_update_proc did
    legacy,                \* the earlier revision: its settings, sheets, frame
    now,                   \* the wall clock: what time()/localtime() return
    clock_24h,             \* clock_is_24h_style()
    bounds,                \* layer_get_bounds(): the screen size
    resources,             \* the resource ids gbitmap_create_with_resource can load
    build                  \* compile-time switches of config.h and the
                           \* sheet images bundled with the build

vars == << s_settings, persist, s_settings_dark_mode, s_widget_config,
           s_battery_percent, s_step_count, s_step_goal, sprites,
           s_debug_counter, s_debug_timer, s_current, loaded, dirty, frame,
           legacy, now, clock_24h, bounds, resources, build >>

----------------------------------------------------------------------------
(* Program constants *)

PRIORITY_WIDTH == 40
SUBPRIORITY_WIDTH == 27
MIDPRIORITY_WIDTH == 34
SPRITE_HEIGHT == 18
SPRITES_PER_ROW == 3
SPRITES_PER_COLUMN == 4
DAY_WIDTH == 20
DAY_HEIGHT == 14
DAY_SPRITES_PER_ROW == 4
DATE_WIDTH == 20
DATE_HEIGHT == 14
DATE_SPRITES_PER_ROW == 3
DEFAULT_STEP_GOAL == 10000

\* enum WidgetType
WIDGET_NONE == 0
WIDGET_MONTH_DATE == 1
WIDGET_DAY_DATE == 2
WIDGET_AM_PM_INDICATOR == 3
WIDGET_BATTERY_INDICATOR == 4
WIDGET_STEP_COUNT == 5

\* enum CornerPosition
CORNER_TOP_LEFT == 0
CORNER_TOP_RIGHT == 1

\* the earlier revision's own constants
LEGACY_SUBPRIORITY_WIDTH == 30
DATE_HALF_WIDTH == 10
DATE_HALF_HEIGHT == 14
DATE_HALF_SPRITES_PER_ROW == 4

----------------------------------------------------------------------------
(* Bounds of the model *)

\* screen widths run from the 144 px of the rectangular watches up to
\* 144 + MaxExtraWidth, so that both parities occur
MaxExtraWidth == 1
\* widget type values a configuration message may carry: 0 .. MaxWidgetValue;
\* those above WIDGET_STEP_COUNT are unknown types
MaxWidgetValue == 6
\* the last second of a minute up to which the clock is followed once it
\* has turned
MaxTickSecond == 1

----------------------------------------------------------------------------
(* C arithmetic: / and % truncate toward zero *)

CDiv(a, b) == IF a >= 0 THEN a \div b ELSE -((-a) \div b)

CMod(a, b) == a - b * CDiv(a, b)

\* int is 32 bits wide and a sum that overflows wraps on the target.  The
\* wrapped sum is computed without leaving the 32-bit range.
INT_MAX == 2147483647

Add32(a, b) ==
    IF a > 0 /\ b > 0 /\ a > INT_MAX - b
    THEN (a - INT_MAX - 1) + (b - INT_MAX - 1)
    ELSE IF a < 0 /\ b < 0 /\ a < (-INT_MAX - 1) - b
    THEN (a + INT_MAX + 1) + (b + INT_MAX + 1)
    ELSE a + b

\* a * k for a small k >= 1, by repeated wrapping addition
RECURSIVE Mul32(_, _)
Mul32(a, k) == IF k = 1 THEN a ELSE Add32(Mul32(a, k - 1), a)

----------------------------------------------------------------------------
(* Sprite sheets *)

SheetNames == {"priority", "subpriority", "midpriority", "day",
               "battery", "steps", "date", "am_pm"}

\* a GBitmap* that is NULL
NullSheet == [loaded |-> FALSE, w |-> 0, h |-> 0, inverted |-> FALSE]

\* The size of each sheet as shipped: the digit sheets are SPRITES_PER_ROW x
\* SPRITES_PER_COLUMN glyphs, day.png is a 4x4 grid, date.png a 3x4 grid,
\* the battery sheet 10 rows, the steps sheet 9 rows and the indicator 2 rows
\* of 14 px.
\* A build may bundle a digit sheet whose image is one glyph column
\* narrower or one glyph row shorter than that.
SheetColumns(id) ==
    IF id \in build.narrow_sheets THEN SPRITES_PER_ROW - 1
    ELSE SPRITES_PER_ROW

SheetRows(id) ==
    IF id \in build.short_sheets THEN SPRITES_PER_COLUMN - 1
    ELSE SPRITES_PER_COLUMN

SheetSize(id) ==
    CASE id = "priority"    -> [w |-> SheetColumns(id) * PRIORITY_WIDTH,
                                h |-> SheetRows(id) * SPRITE_HEIGHT]
      [] id = "subpriority" -> [w |-> SheetColumns(id) * SUBPRIORITY_WIDTH,
                                h |-> SheetRows(id) * SPRITE_HEIGHT]
      [] id = "midpriority" -> [w |-> SheetColumns(id) * MIDPRIORITY_WIDTH,
                                h |-> SheetRows(id) * SPRITE_HEIGHT]
      [] id = "day"         -> [w |-> DAY_SPRITES_PER_ROW * DAY_WIDTH,
                                h |-> 4 * DAY_HEIGHT]
      [] id = "date"        -> [w |-> DATE_SPRITES_PER_ROW * DATE_WIDTH,
                                h |-> 4 * DATE_HEIGHT]
      [] id = "battery"     -> [w |-> 44, h |-> 10 * 14]
      [] id = "steps"       -> [w |-> 44, h |-> 9 * 14]
      [] id = "am_pm"       -> [w |-> 20, h |-> 2 * 14]

\* gbitmap_create_with_resource: the sheet, or NULL when the resource cannot
\* be loaded
gbitmap_create_with_resource(id) ==
    IF id \in resources
    THEN [loaded |-> TRUE, w |-> SheetSize(id).w, h |-> SheetSize(id).h,
          inverted |-> FALSE]
    ELSE NullSheet

\* invert_bitmap_palette: black and white swap; NULL is left alone
invert_bitmap_palette(bitmap) ==
    IF ~bitmap.loaded THEN bitmap
    ELSE [bitmap EXCEPT !.inverted = ~bitmap.inverted]

----------------------------------------------------------------------------
(* Draw calls.  An entry of a frame's call list is one call of a graphics  *)
(* primitive or of one of the glyph helpers; painted is FALSE when the     *)
(* helper returned before graphics_draw_bitmap_in_rect.                    *)

Call(op, slot, sheet, row, col, x, y, w, h, arg, painted) ==
    [op |-> op, slot |-> slot, sheet |-> sheet, row |-> row, col |-> col,
     x |-> x, y |-> y, w |-> w, h |-> h, arg |-> arg, painted |-> painted,
     color |-> ""]

\* the fill colours canvas_update_proc sets before its fills
BackgroundColor(dark_mode) ==
    IF dark_mode THEN "GColorBlack" ELSE "GColorWhite"

ForegroundColor(dark_mode) ==
    IF dark_mode THEN "GColorWhite" ELSE "GColorBlack"

MarkColor(dark_mode) ==
    IF dark_mode THEN "GColorLightGray" ELSE "GColorDarkGray"

\* graphics_fill_rect with the fill colour in force
FillRect(slot, x, y, w, h, color) ==
    [Call("fill_rect", slot, "", 0, 0, x, y, w, h, 0, TRUE)
        EXCEPT !.color = color]

\* graphics_fill_circle around GPoint(x, y); the entry keeps the point, the
\* radius of the dot (w and h) and, in arg, the angle of the mark on the
\* dial in units of pi/360
FillCircle(slot, x, y, radius, angle, color) ==
    [Call("fill_circle", slot, "", 0, 0, x, y, radius, radius, angle, TRUE)
        EXCEPT !.color = color]

\* the calls of a list that reached the screen
Painted(calls) == SelectSeq(calls, LAMBDA c : c.painted)

----------------------------------------------------------------------------
(* Time digits *)

DigitTypes == {"DIGIT_PRIORITY", "DIGIT_SUBPRIORITY", "DIGIT_MIDPRIORITY"}

get_digit_width(type) ==
    CASE type = "DIGIT_PRIORITY"    -> PRIORITY_WIDTH
      [] type = "DIGIT_SUBPRIORITY" -> SUBPRIORITY_WIDTH
      [] type = "DIGIT_MIDPRIORITY" -> MIDPRIORITY_WIDTH
      [] OTHER                      -> SUBPRIORITY_WIDTH

DigitSheet(type) ==
    CASE type = "DIGIT_PRIORITY"    -> "priority"
      [] type = "DIGIT_SUBPRIORITY" -> "subpriority"
      [] type = "DIGIT_MIDPRIORITY" -> "midpriority"

\* a cell computation without the special case for 0
DigitCell_NoZeroCase(digit) ==
    [row |-> CDiv(digit - 1, SPRITES_PER_ROW),
     col |-> CMod(digit - 1, SPRITES_PER_ROW)]

\* the atlas cell of a digit: 0 sits in row 3, column 0
DigitCell(digit) ==
    IF digit = 0 THEN [row |-> 3, col |-> 0]
    ELSE [row |-> CDiv(digit - 1, SPRITES_PER_ROW),
          col |-> CMod(digit - 1, SPRITES_PER_ROW)]

draw_digit(slot, digit, type, x, y) ==
    LET sheet_id     == DigitSheet(type)
        sprite_sheet == sprites[sheet_id]
        sprite_width == get_digit_width(type)
        cell         == DigitCell(digit)
        ok == /\ sprite_sheet.loaded
              /\ sprite_sheet.w > 0 /\ sprite_sheet.h > 0
              /\ ~ \/ cell.col >= CDiv(sprite_sheet.w, sprite_width)
                   \/ cell.row >= CDiv(sprite_sheet.h, SPRITE_HEIGHT)
    IN  Call("bitmap", slot, sheet_id, cell.row, cell.col, x, y,
             sprite_width, SPRITE_HEIGHT, digit, ok)

\* canvas_update_proc, the 12/24-hour conversion of the hour
DisplayHour(hour, use_24_hour) ==
    IF ~use_24_hour
    THEN IF hour > 12 THEN hour - 12
         ELSE IF hour = 0 THEN 12 ELSE hour
    ELSE hour

\* a classifier that never widens the minutes of a single-digit hour
ClassifyDigits_MinutesNarrow(hour_tens) ==
    [hour_tens |-> "DIGIT_SUBPRIORITY",
     hour_ones |-> IF hour_tens = 0 THEN "DIGIT_PRIORITY"
                   ELSE "DIGIT_SUBPRIORITY",
     minute_tens |-> "DIGIT_SUBPRIORITY", minute_ones |-> "DIGIT_SUBPRIORITY"]

\* a classifier that keeps the ones digit of a two-digit hour wide
ClassifyDigits_OnesWide(hour_tens) ==
    [hour_tens |-> "DIGIT_SUBPRIORITY", hour_ones |-> "DIGIT_PRIORITY",
     minute_tens |-> IF hour_tens = 0 THEN "DIGIT_MIDPRIORITY"
                     ELSE "DIGIT_SUBPRIORITY",
     minute_ones |-> IF hour_tens = 0 THEN "DIGIT_MIDPRIORITY"
                     ELSE "DIGIT_SUBPRIORITY"]

\* canvas_update_proc, the size class of each of the four digits
ClassifyDigits(hour_tens) ==
    IF hour_tens = 0
    THEN [hour_tens |-> "DIGIT_SUBPRIORITY", hour_ones |-> "DIGIT_PRIORITY",
          minute_tens |-> "DIGIT_MIDPRIORITY",
          minute_ones |-> "DIGIT_MIDPRIORITY"]
    ELSE [hour_tens |-> "DIGIT_SUBPRIORITY", hour_ones |-> "DIGIT_SUBPRIORITY",
          minute_tens |-> "DIGIT_SUBPRIORITY",
          minute_ones |-> "DIGIT_SUBPRIORITY"]

\* a width pass that forgets the spacing after the colon
TotalWidth_NoColonSpacing(hour_tens, type) ==
    (IF hour_tens > 0 THEN get_digit_width(type.hour_tens) + 2 ELSE 0)
    + get_digit_width(type.hour_ones) + 2 + 8
    + get_digit_width(type.minute_tens) + 2
    + get_digit_width(type.minute_ones)

\* canvas_update_proc, the width pass
TotalWidth(hour_tens, type) ==
    LET colon_width   == 8
        digit_spacing == 2
    IN  (IF hour_tens > 0
         THEN get_digit_width(type.hour_tens) + digit_spacing ELSE 0)
        + get_digit_width(type.hour_ones) + digit_spacing
        + colon_width + digit_spacing
        + get_digit_width(type.minute_tens) + digit_spacing
        + get_digit_width(type.minute_ones)

\* a left edge that divides the screen, not the free space, by two
StartX_HalfScreen(screen_width, total_width) ==
    CDiv(screen_width, 2) - total_width

\* canvas_update_proc, the left edge that centres a block of total_width
StartX(screen_width, total_width) == CDiv(screen_width - total_width, 2)

\* a draw pass that keeps the slot of a leading zero free
DrawTimeBlock_ReservedTens(d, type, start_x, y_pos) ==
    LET x1 == start_x + get_digit_width(type.hour_tens) + 2
        x2 == x1 + get_digit_width(type.hour_ones) + 2
        x3 == x2 + 8 + 2
        x4 == x3 + get_digit_width(type.minute_tens) + 2
    IN  [calls |->
            (IF d.hour_tens > 0
             THEN << draw_digit("hour_tens", d.hour_tens, type.hour_tens,
                                start_x, y_pos) >>
             ELSE << >>)
            \o << draw_digit("hour_ones", d.hour_ones, type.hour_ones,
                             x1, y_pos),
                  FillRect("colon", x2 + 2, y_pos + 4, 4, 4,
                           ForegroundColor(s_settings.dark_mode)),
                  FillRect("colon", x2 + 2, y_pos + 10, 4, 4,
                           ForegroundColor(s_settings.dark_mode)),
                  draw_digit("minute_tens", d.minute_tens, type.minute_tens,
                             x3, y_pos),
                  draw_digit("minute_ones", d.minute_ones, type.minute_ones,
                             x4, y_pos) >>,
         current_x |-> x4]

\* a draw pass that moves on only past a glyph that was painted
DrawTimeBlock_AdvanceIfPainted(d, type, start_x, y_pos) ==
    LET step(call) == IF call.painted THEN call.w + 2 ELSE 0
        tens == draw_digit("hour_tens", d.hour_tens, type.hour_tens,
                           start_x, y_pos)
        x1   == IF d.hour_tens > 0 THEN start_x + step(tens) ELSE start_x
        ones == draw_digit("hour_ones", d.hour_ones, type.hour_ones,
                           x1, y_pos)
        x2   == x1 + step(ones)
        x3   == x2 + 8 + 2
        mtens == draw_digit("minute_tens", d.minute_tens, type.minute_tens,
                            x3, y_pos)
        x4   == x3 + step(mtens)
    IN  [calls |->
            (IF d.hour_tens > 0 THEN << tens >> ELSE << >>)
            \o << ones,
                  FillRect("colon", x2 + 2, y_pos + 4, 4, 4,
                           ForegroundColor(s_settings.dark_mode)),
                  FillRect("colon", x2 + 2, y_pos + 10, 4, 4,
                           ForegroundColor(s_settings.dark_mode)),
                  mtens,
                  draw_digit("minute_ones", d.minute_ones, type.minute_ones,
                             x4, y_pos) >>,
         current_x |-> x4]

\* canvas_update_proc, the draw pass over the digits and the colon: the
\* calls, and current_x as it stands after the last glyph is placed
DrawTimeBlock(d, type, start_x, y_pos) ==
    LET colon_width   == 8
        digit_spacing == 2
        x1 == IF d.hour_tens > 0
              THEN start_x + get_digit_width(type.hour_tens) + digit_spacing
              ELSE start_x
        x2 == x1 + get_digit_width(type.hour_ones) + digit_spacing
        x3 == x2 + colon_width + digit_spacing
        x4 == x3 + get_digit_width(type.minute_tens) + digit_spacing
    IN  [calls |->
            (IF d.hour_tens > 0
             THEN << draw_digit("hour_tens", d.hour_tens, type.hour_tens,
                                start_x, y_pos) >>
             ELSE << >>)
            \o << draw_digit("hour_ones", d.hour_ones, type.hour_ones,
                             x1, y_pos),
                  FillRect("colon", x2 + 2, y_pos + 4, 4, 4,
                           ForegroundColor(s_settings.dark_mode)),
                  FillRect("colon", x2 + 2, y_pos + 10, 4, 4,
                           ForegroundColor(s_settings.dark_mode)),
                  draw_digit("minute_tens", d.minute_tens, type.minute_tens,
                             x3, y_pos),
                  draw_digit("minute_ones", d.minute_ones, type.minute_ones,
                             x4, y_pos) >>,
         current_x |-> x4]

----------------------------------------------------------------------------
(* The widget module, widgets.c *)

\* draw_date_number: digits sit in date.png in the order 1..9, 0
draw_date_number(slot, digit, x, y) ==
    LET sheet        == sprites["date"]
        sprite_index == IF digit = 0 THEN 9 ELSE digit - 1
        sprite_row   == CDiv(sprite_index, DATE_SPRITES_PER_ROW)
        sprite_col   == CMod(sprite_index, DATE_SPRITES_PER_ROW)
        ok == /\ sheet.loaded
              /\ sheet.w > 0 /\ sheet.h > 0
              /\ digit \in 0..9
              /\ ~ \/ sprite_col >= CDiv(sheet.w, DATE_WIDTH)
                   \/ sprite_row >= CDiv(sheet.h, DATE_HEIGHT)
    IN  Call("bitmap", slot, "date", sprite_row, sprite_col, x, y,
             DATE_WIDTH, DATE_HEIGHT, digit, ok)

\* draw_month_date_widget and draw_day_date_widget share one body: the
\* number is tm_mon + 1 for the first and tm_mday for the second
DrawDateValue(slot, value, x, y) ==
    IF value < 10
    THEN << draw_date_number(slot, value, x, y) >>
    ELSE << draw_date_number(slot, CDiv(value, 10), x, y),
            draw_date_number(slot, CMod(value, 10), x + DATE_WIDTH + 4, y) >>

draw_month_date_widget(slot, x, y, tick_time) ==
    DrawDateValue(slot, tick_time.tm_mon + 1, x, y)

draw_day_date_widget(slot, x, y, tick_time) ==
    DrawDateValue(slot, tick_time.tm_mday, x, y)

\* an indicator drawn without the test for a missing sheet
draw_am_pm_widget_NoSheetTest(slot, x, y, tick_time) ==
    LET is_pm       == tick_time.tm_hour >= 12
        frame_index == IF is_pm THEN 0 ELSE 1
    IN  << Call("bitmap", slot, "am_pm", frame_index, 0, x, y, 20, 14,
                frame_index, TRUE) >>

draw_am_pm_widget(slot, x, y, tick_time) ==
    LET is_pm       == tick_time.tm_hour >= 12
        frame_index == IF is_pm THEN 0 ELSE 1
    IN  << Call("bitmap", slot, "am_pm", frame_index, 0, x, y, 20, 14,
                frame_index, sprites["am_pm"].loaded) >>

BatteryFrame(percent) ==
    IF percent >= 90 THEN 0
    ELSE IF percent >= 80 THEN 1
    ELSE IF percent >= 70 THEN 2
    ELSE IF percent >= 60 THEN 3
    ELSE IF percent >= 50 THEN 4
    ELSE IF percent >= 40 THEN 5
    ELSE IF percent >= 30 THEN 6
    ELSE IF percent >= 20 THEN 7
    ELSE IF percent >= 10 THEN 8
    ELSE 9

draw_battery_widget(slot, x, y) ==
    LET frame_index == BatteryFrame(s_battery_percent)
    IN  << Call("bitmap", slot, "battery", frame_index, 0, x, y, 44, 14,
                frame_index, sprites["battery"].loaded) >>

\* s_step_goal * k/9 is (s_step_goal * k) / 9 in int arithmetic
StepsFrame(count, goal) ==
    LET part(k) == CDiv(Mul32(goal, k), 9)
    IN  IF count >= goal THEN 8
        ELSE IF count >= part(8) THEN 7
        ELSE IF count >= part(7) THEN 6
        ELSE IF count >= part(6) THEN 5
        ELSE IF count >= part(5) THEN 4
        ELSE IF count >= part(4) THEN 3
        ELSE IF count >= part(3) THEN 2
        ELSE IF count >= part(2) THEN 1
        ELSE 0

draw_steps_widget(slot, x, y) ==
    LET frame_index == StepsFrame(s_step_count, s_step_goal)
    IN  << Call("bitmap", slot, "steps", frame_index, 0, x, y, 44, 14,
                frame_index, sprites["steps"].loaded) >>

\* a width table that takes the 2 px spacing of the earlier revision
WidgetWidth_NarrowSpacing(widget_type, tick_time) ==
    CASE widget_type = WIDGET_MONTH_DATE ->
            IF tick_time.tm_mon + 1 < 10 THEN DATE_WIDTH
            ELSE DATE_WIDTH * 2 + 2
      [] widget_type = WIDGET_DAY_DATE ->
            IF tick_time.tm_mday < 10 THEN DATE_WIDTH
            ELSE DATE_WIDTH * 2 + 2
      [] widget_type = WIDGET_AM_PM_INDICATOR -> 20
      [] widget_type \in {WIDGET_BATTERY_INDICATOR, WIDGET_STEP_COUNT} -> 44
      [] OTHER -> 30

\* widgets_draw_corner, the width it computes for the right corner
WidgetWidth(widget_type, tick_time) ==
    CASE widget_type = WIDGET_MONTH_DATE ->
            IF tick_time.tm_mon + 1 < 10 THEN DATE_WIDTH
            ELSE DATE_WIDTH * 2 + 4
      [] widget_type = WIDGET_DAY_DATE ->
            IF tick_time.tm_mday < 10 THEN DATE_WIDTH
            ELSE DATE_WIDTH * 2 + 4
      [] widget_type = WIDGET_AM_PM_INDICATOR -> 20
      [] widget_type \in {WIDGET_BATTERY_INDICATOR, WIDGET_STEP_COUNT} -> 44
      [] OTHER -> 30

\* a dispatch whose default falls through to the battery widget
DrawWidget_DefaultBattery(widget_type, slot, x, y, tick_time) ==
    CASE widget_type = WIDGET_MONTH_DATE ->
            draw_month_date_widget(slot, x, y, tick_time)
      [] widget_type = WIDGET_DAY_DATE ->
            draw_day_date_widget(slot, x, y, tick_time)
      [] widget_type = WIDGET_AM_PM_INDICATOR ->
            draw_am_pm_widget(slot, x, y, tick_time)
      [] widget_type = WIDGET_STEP_COUNT ->
            draw_steps_widget(slot, x, y)
      [] OTHER -> draw_battery_widget(slot, x, y)

\* widgets_draw_corner, the dispatch on the widget type
DrawWidget(widget_type, slot, x, y, tick_time) ==
    CASE widget_type = WIDGET_MONTH_DATE ->
            draw_month_date_widget(slot, x, y, tick_time)
      [] widget_type = WIDGET_DAY_DATE ->
            draw_day_date_widget(slot, x, y, tick_time)
      [] widget_type = WIDGET_AM_PM_INDICATOR ->
            draw_am_pm_widget(slot, x, y, tick_time)
      [] widget_type = WIDGET_BATTERY_INDICATOR ->
            draw_battery_widget(slot, x, y)
      [] widget_type = WIDGET_STEP_COUNT ->
            draw_steps_widget(slot, x, y)
      [] OTHER -> << >>

\* a resolver that anchors the right corner without the side padding
widgets_draw_corner_NoRightPadding(corner, tick_time) ==
    LET slot == IF corner = CORNER_TOP_LEFT THEN "top_left" ELSE "top_right"
        widget_type == IF corner = CORNER_TOP_LEFT
                       THEN s_widget_config.top_left_widget
                       ELSE s_widget_config.top_right_widget
        widget_width == WidgetWidth(widget_type, tick_time)
        x == IF corner = CORNER_TOP_LEFT THEN 10 ELSE bounds.w - widget_width
    IN  IF widget_type = WIDGET_NONE
        THEN [corner |-> corner, widget_type |-> widget_type,
              skipped |-> TRUE, has_width |-> FALSE, widget_width |-> 0,
              x |-> 0, y |-> 0, calls |-> << >>]
        ELSE [corner |-> corner, widget_type |-> widget_type,
              skipped |-> FALSE, has_width |-> corner # CORNER_TOP_LEFT,
              widget_width |-> IF corner = CORNER_TOP_LEFT THEN 0
                               ELSE widget_width,
              x |-> x, y |-> 10,
              calls |-> DrawWidget(widget_type, slot, x, 10, tick_time)]

\* What widgets_draw_corner leaves behind: its locals and its calls.
\* skipped is the early return on WIDGET_NONE, before x is computed;
\* widget_width is computed for the right corner only (has_width).
widgets_draw_corner(corner, tick_time) ==
    LET padding_top  == 10
        padding_side == 10
        slot == IF corner = CORNER_TOP_LEFT THEN "top_left" ELSE "top_right"
        widget_type == IF corner = CORNER_TOP_LEFT
                       THEN s_widget_config.top_left_widget
                       ELSE s_widget_config.top_right_widget
        widget_width == WidgetWidth(widget_type, tick_time)
        x == IF corner = CORNER_TOP_LEFT THEN padding_side
             ELSE bounds.w - widget_width - padding_side
        y == padding_top
    IN  IF widget_type = WIDGET_NONE
        THEN [corner |-> corner, widget_type |-> widget_type,
              skipped |-> TRUE, has_width |-> FALSE, widget_width |-> 0,
              x |-> 0, y |-> 0, calls |-> << >>]
        ELSE [corner |-> corner, widget_type |-> widget_type,
              skipped |-> FALSE, has_width |-> corner # CORNER_TOP_LEFT,
              widget_width |-> IF corner = CORNER_TOP_LEFT THEN 0
                               ELSE widget_width,
              x |-> x, y |-> y,
              calls |-> DrawWidget(widget_type, slot, x, y, tick_time)]

----------------------------------------------------------------------------
(* Day abbreviation *)

\* draw_day_char: the letters of day.png in sheet order
DayLetters == << "A", "D", "E", "F", "H", "I", "M", "N", "O", "R", "S", "T",
                 "U", "W" >>

\* the sprite index of a character, -1 when the sheet has no such letter
DaySpriteIndex(character) ==
    IF \E i \in 1..Len(DayLetters) : DayLetters[i] = character
    THEN (CHOOSE i \in 1..Len(DayLetters) : DayLetters[i] = character) - 1
    ELSE -1

\* draw_day_char returns before any call when the sheet is missing or the
\* character is unknown; the entry then has painted = FALSE
draw_day_char(character, x, y) ==
    LET sheet        == sprites["day"]
        sprite_index == DaySpriteIndex(character)
        sprite_row   == CDiv(sprite_index, DAY_SPRITES_PER_ROW)
        sprite_col   == CMod(sprite_index, DAY_SPRITES_PER_ROW)
        ok == /\ sheet.loaded
              /\ sheet.w > 0 /\ sheet.h > 0
              /\ sprite_index >= 0
              /\ ~ \/ sprite_col >= CDiv(sheet.w, DAY_WIDTH)
                   \/ sprite_row >= CDiv(sheet.h, DAY_HEIGHT)
    IN  Call("bitmap", "day_char", "day", sprite_row, sprite_col, x, y,
             DAY_WIDTH, DAY_HEIGHT, sprite_index, ok)

DayAbbrev(day_of_week, two_letter) ==
    IF two_letter
    THEN CASE day_of_week = 0 -> << "S", "U" >>
           [] day_of_week = 1 -> << "M", "O" >>
           [] day_of_week = 2 -> << "T", "U" >>
           [] day_of_week = 3 -> << "W", "E" >>
           [] day_of_week = 4 -> << "T", "H" >>
           [] day_of_week = 5 -> << "F", "R" >>
           [] day_of_week = 6 -> << "S", "A" >>
           [] OTHER           -> << "E", "R" >>
    ELSE CASE day_of_week = 0 -> << "S", "U", "N" >>
           [] day_of_week = 1 -> << "M", "O", "N" >>
           [] day_of_week = 2 -> << "T", "U", "E" >>
           [] day_of_week = 3 -> << "W", "E", "D" >>
           [] day_of_week = 4 -> << "T", "H", "U" >>
           [] day_of_week = 5 -> << "F", "R", "I" >>
           [] day_of_week = 6 -> << "S", "A", "T" >>
           [] OTHER           -> << "E", "R", "R" >>

\* a placer that centres the middle letter's left edge, not the letter
DrawDayAbbrev_MiddleAtHalfWidth(day_of_week) ==
    LET day_abbrev == DayAbbrev(day_of_week, s_settings.use_two_letter_day)
        y_pos    == bounds.h - DAY_HEIGHT - 10
        start_x  == 10
        middle_x == CDiv(bounds.w, 2)
        right_x  == bounds.w - DAY_WIDTH - 10
    IN  IF ~sprites["day"].loaded THEN << >>
        ELSE IF s_settings.use_two_letter_day
        THEN << draw_day_char(day_abbrev[1], start_x, y_pos),
                draw_day_char(day_abbrev[2], right_x, y_pos) >>
        ELSE << draw_day_char(day_abbrev[1], start_x, y_pos),
                draw_day_char(day_abbrev[2], middle_x, y_pos),
                draw_day_char(day_abbrev[3], right_x, y_pos) >>

\* canvas_update_proc, the day abbreviation in the bottom corners
DrawDayAbbrev(day_of_week) ==
    LET padding_bottom == 10
        padding_left   == 10
        day_abbrev == DayAbbrev(day_of_week, s_settings.use_two_letter_day)
        y_pos    == bounds.h - DAY_HEIGHT - padding_bottom
        start_x  == padding_left
        middle_x == CDiv(bounds.w - DAY_WIDTH, 2)
        right_x  == bounds.w - DAY_WIDTH - padding_left
    IN  IF ~sprites["day"].loaded THEN << >>
        ELSE IF s_settings.use_two_letter_day
        THEN << draw_day_char(day_abbrev[1], start_x, y_pos),
                draw_day_char(day_abbrev[2], right_x, y_pos) >>
        ELSE << draw_day_char(day_abbrev[1], start_x, y_pos),
                draw_day_char(day_abbrev[2], middle_x, y_pos),
                draw_day_char(day_abbrev[3], right_x, y_pos) >>

----------------------------------------------------------------------------
(* Settings *)

NoRecord == [exists |-> FALSE]

\* get_default_widget_config
get_default_widget_config ==
    [top_left_widget  |-> WIDGET_DAY_DATE,
     top_right_widget |-> WIDGET_BATTERY_INDICATOR]

\* get_default_settings; the two debug defaults are the compile-time
\* switches DEFAULT_DEBUG_MODE and DEFAULT_DEBUG_LOGGING
DefaultSettings(b) ==
    [dark_mode             |-> FALSE,
     use_24_hour_format    |-> FALSE,
     use_two_letter_day    |-> FALSE,
     debug_mode            |-> b.DEFAULT_DEBUG_MODE,
     debug_logging         |-> b.DEFAULT_DEBUG_LOGGING,
     show_second_dot       |-> FALSE,
     show_hour_minute_dots |-> TRUE,
     step_goal             |-> DEFAULT_STEP_GOAL,
     widget_config         |-> get_default_widget_config]

get_default_settings == DefaultSettings(build)

\* prv_load_settings: the stored record replaces the defaults when one exists
prv_load_settings(defaults) ==
    IF persist.exists THEN persist.data ELSE defaults

\* prv_save_settings
prv_save_settings(settings) == [exists |-> TRUE, data |-> settings]

\* a widgets_set_step_goal that takes every goal
widgets_set_step_goal_Unchecked(old_goal, step_goal) == step_goal

\* widgets_set_step_goal: a goal that is not positive is ignored
widgets_set_step_goal(old_goal, step_goal) ==
    IF step_goal > 0 THEN step_goal ELSE old_goal

----------------------------------------------------------------------------
(* IEEE 754 single-precision arithmetic, as the float expressions of       *)
(* canvas_update_proc and math.c are evaluated.  A float is a sign, a      *)
(* 24-bit significand m (2^23 <= m < 2^24, or 0) and the exponent e of its *)
(* last bit: the value is sign * m * 2^e.  Every operation rounds to       *)
(* nearest, ties to even.  The values that occur are far from overflow and *)
(* underflow.                                                              *)

\* Operands are bound to values before an operator uses them: the
\* computations below write  CHOOSE r \in {Op(v) : v \in {a}} : TRUE  for the
\* value of Op(a).

RECURSIVE Pow2(_)
Pow2(n) == IF n = 0 THEN 1 ELSE 2 * (CHOOSE r \in {Pow2(v) : v \in {n - 1}} : TRUE)

\* the number of bits of an integer n >= 0
RECURSIVE BitLen(_)
BitLen(n) == IF n = 0 THEN 0 ELSE 1 + (CHOOSE r \in {BitLen(v) : v \in {n \div 2}} : TRUE)

FZero == [sign |-> 1, m |-> 0, e |-> 0]

\* FRound for a significand m of len bits
RoundBits(sign, m, e, sticky, len) ==
    IF len <= 24
    THEN [sign |-> sign, m |-> m * Pow2(24 - len), e |-> e - (24 - len)]
    ELSE LET k    == len - 24
             q    == m \div Pow2(k)
             rem  == m % Pow2(k)
             half == Pow2(k - 1)
             up   == \/ rem > half
                     \/ rem = half /\ (sticky \/ q % 2 = 1)
         IN  IF up /\ q + 1 = Pow2(24)
             THEN [sign |-> sign, m |-> Pow2(23), e |-> e + k + 1]
             ELSE [sign |-> sign, m |-> IF up THEN q + 1 ELSE q, e |-> e + k]

\* the float nearest to sign * (m + f) * 2^e, where 0 <= m < 2^31 and f is
\* a fraction in [0, 1) that is not zero exactly when sticky holds
FRound(sign, m, e, sticky) ==
    LET Rounded(mv, len) == RoundBits(sign, mv, e, sticky, len)
        Measured(mv)     == CHOOSE r \in {Rounded(v, w) : v \in {mv}, w \in {BitLen(mv)}} : TRUE
    IN  IF m = 0 THEN FZero
        ELSE CHOOSE r \in {Measured(v) : v \in {m}} : TRUE

IntToFloat(n) ==
    FRound(IF n < 0 THEN -1 ELSE 1, IF n < 0 THEN -n ELSE n, 0, FALSE)

\* (float)n for an int n
FInt(n) == CHOOSE r \in {IntToFloat(v) : v \in {n}} : TRUE

FNeg(a) == [a EXCEPT !.sign = -a.sign]

\* the 48-bit product of two significands, from 12-bit halves
MulValues(a, b) ==
    IF a.m = 0 \/ b.m = 0 THEN FZero
    ELSE LET a1  == a.m \div 4096
             a0  == a.m % 4096
             b1  == b.m \div 4096
             b0  == b.m % 4096
             mid == a1 * b0 + a0 * b1
             low == a0 * b0 + (mid % 4096) * 4096
             hi  == a1 * b1 + mid \div 4096 + low \div Pow2(24)
             lo  == low % Pow2(24)
         IN  FRound(a.sign * b.sign, hi * 64 + lo \div Pow2(18),
                    a.e + b.e + 18, lo % Pow2(18) # 0)

\* a * b
FMul(a, b) ==
    CHOOSE r \in {MulValues(v, w) : v \in {a}, w \in {b}} : TRUE

\* 28 quotient bits after the leading one, seven at a time
DivValues(a, b) ==
    IF a.m = 0 THEN FZero
    ELSE LET q0 == a.m \div b.m
             r0 == a.m % b.m
             q1 == q0 * 128 + (r0 * 128) \div b.m
             r1 == (r0 * 128) % b.m
             q2 == q1 * 128 + (r1 * 128) \div b.m
             r2 == (r1 * 128) % b.m
             q3 == q2 * 128 + (r2 * 128) \div b.m
             r3 == (r2 * 128) % b.m
             q4 == q3 * 128 + (r3 * 128) \div b.m
             r4 == (r3 * 128) % b.m
         IN  FRound(a.sign * b.sign, q4, a.e - b.e - 28, r4 # 0)

\* a / b, b not zero
FDiv(a, b) ==
    CHOOSE r \in {DivValues(v, w) : v \in {a}, w \in {b}} : TRUE

AddValues(a, b) ==
    IF a.m = 0 THEN b
    ELSE IF b.m = 0 THEN a
    ELSE LET swap == a.e < b.e \/ (a.e = b.e /\ a.m < b.m)
             big   == IF swap THEN b ELSE a
             small == IF swap THEN a ELSE b
             d     == big.e - small.e
             mb    == big.m * 64
             ms    == IF d > 30 THEN 0 ELSE (small.m * 64) \div Pow2(d)
             lost  == IF d > 30 THEN TRUE
                      ELSE (small.m * 64) % Pow2(d) # 0
         IN  IF big.sign = small.sign
             THEN FRound(big.sign, mb + ms, big.e - 6, lost)
             ELSE FRound(big.sign, mb - ms - (IF lost THEN 1 ELSE 0),
                         big.e - 6, lost)

\* a + b
FAdd(a, b) ==
    CHOOSE r \in {AddValues(v, w) : v \in {a}, w \in {b}} : TRUE

FSub(a, b) == FAdd(a, FNeg(b))

\* a < b and a > b
IsNegative(d) == d.m # 0 /\ d.sign = -1

FLess(a, b) ==
    CHOOSE r \in {IsNegative(v) : v \in {FSub(a, b)}} : TRUE

FGreater(a, b) == FLess(b, a)

\* (int)a, truncation toward zero
IntValue(a) ==
    IF a.e >= 0 THEN a.sign * a.m * Pow2(a.e)
    ELSE IF -a.e > 30 THEN 0
    ELSE a.sign * (a.m \div Pow2(-a.e))

FToInt(a) == CHOOSE r \in {IntValue(v) : v \in {a}} : TRUE

----------------------------------------------------------------------------
(* math.c *)

\* 3.141592653589793f and 1.5707963267948966f
M_PI == [sign |-> 1, m |-> 13176795, e |-> -22]

M_PI_2 == [sign |-> 1, m |-> 13176795, e |-> -23]

\* range_reduce, the first statement: whole turns are taken off
WholeTurnsOff(x) ==
    LET n == FToInt(FDiv(x, FMul(FInt(2), M_PI)))
    IN  FSub(x, FMul(FMul(FInt(n), FInt(2)), M_PI))

\* range_reduce, a negative angle: the sign of the sine is kept aside
TakeSign(x) ==
    IF FLess(x, FZero) THEN [x |-> FNeg(x), sign |-> -1]
    ELSE [x |-> x, sign |-> 1]

\* range_reduce, the fold at pi
FoldAtPi(r) ==
    IF FGreater(r.x, M_PI)
    THEN [x |-> FSub(FMul(FInt(2), M_PI), r.x), sign |-> -r.sign]
    ELSE r

\* range_reduce, the fold at pi/2
FoldAtHalfPi(r) ==
    IF FGreater(r.x, M_PI_2) THEN [r EXCEPT !.x = FSub(M_PI, r.x)] ELSE r

\* range_reduce: the angle folded into [0, pi/2], and the sign of its sine
range_reduce(x) ==
    CHOOSE r \in {FoldAtHalfPi(v) : v \in
                     {FoldAtPi(w) : w \in
                         {TakeSign(u) : u \in {WholeTurnsOff(x)}}}} : TRUE

\* Bhaskara I's approximation on a reduced angle
Bhaskara(r) ==
    IF ~FGreater(r.x, M_PI_2)
    THEN FDiv(FMul(FInt(r.sign),
                   FMul(FMul(FInt(16), r.x), FSub(M_PI, r.x))),
              FSub(FMul(FMul(FInt(5), M_PI), M_PI),
                   FMul(FMul(FInt(4), r.x), FSub(M_PI, r.x))))
    ELSE FZero

my_sin(x) ==
    CHOOSE r \in {Bhaskara(v) : v \in {range_reduce(x)}} : TRUE

my_cos(x) == my_sin(FAdd(x, M_PI_2))

----------------------------------------------------------------------------
(* The radial marks *)

\* the angle of the minute mark and of the second mark for a value 0..59
MinuteAngle(value) ==
    FSub(FMul(FMul(FDiv(FInt(value), FInt(60)), FInt(2)), M_PI), M_PI_2)

\* the angle of the hour mark
HourAngle(display_hour, minute) ==
    FSub(FMul(FMul(FDiv(FAdd(FInt(display_hour),
                             FDiv(FInt(minute), FInt(60))),
                        FInt(12)),
                   FInt(2)), M_PI), M_PI_2)

\* offsets with one half added before the conversion to int
MarkOffset_HalfAdded(radius, angle) ==
    LET half == FDiv(FInt(1), FInt(2))
    IN  [x |-> FToInt(FAdd(FMul(FInt(radius), my_cos(angle)), half)),
         y |-> FToInt(FAdd(FMul(FInt(radius), my_sin(angle)), half))]

\* (int)(radius * my_cos(angle)) and (int)(radius * my_sin(angle))
MarkOffset(radius, angle) ==
    [x |-> FToInt(FMul(FInt(radius), my_cos(angle))),
     y |-> FToInt(FMul(FInt(radius), my_sin(angle)))]

\* the offsets of the marks on the path of radius 50, for every value
MinuteMarkOffset == [value \in 0..59 |-> MarkOffset(50, MinuteAngle(value))]

HourMarkOffset ==
    [display_hour \in 1..12 |->
        [minute \in 0..59 |-> MarkOffset(50, HourAngle(display_hour, minute))]]

----------------------------------------------------------------------------
(* The redraw, canvas_update_proc *)

NoFrame == [drawn |-> FALSE]

\* the (hour, minute) pairs of debug mode, by s_debug_counter % 20
DebugTable ==
    << << 1, 23 >>, << 12, 34 >>, << 9, 59 >>, << 10, 10 >>, << 11, 11 >>,
       << 2, 22 >>, << 3, 33 >>, << 4, 44 >>, << 5, 55 >>, << 6, 6 >>,
       << 7, 17 >>, << 8, 28 >>, << 13, 45 >>, << 14, 56 >>, << 15, 7 >>,
       << 16, 18 >>, << 17, 29 >>, << 18, 40 >>, << 19, 51 >>, << 20, 2 >> >>

\* marks drawn with the second mark first, behind the other two
DrawMarks_SecondFirst(center_x, center_y) ==
    LET h12          == CMod(s_current.hour, 12)
        display_hour == IF h12 = 0 THEN 12 ELSE h12
        hour_dot     == HourMarkOffset[display_hour][s_current.minute]
        minute_dot   == MinuteMarkOffset[s_current.minute]
        dot          == MinuteMarkOffset[s_current.second]
    IN  (IF s_settings.show_second_dot
         THEN << FillCircle("second_mark", center_x + dot.x,
                            center_y + dot.y, 4,
                            12 * s_current.second - 180,
                            ForegroundColor(s_settings.dark_mode)) >>
         ELSE << >>)
        \o
        (IF s_settings.show_hour_minute_dots
         THEN << FillCircle("hour_mark", center_x + hour_dot.x,
                            center_y + hour_dot.y, 4,
                            60 * display_hour + s_current.minute - 180,
                            MarkColor(s_settings.dark_mode)),
                 FillCircle("minute_mark", center_x + minute_dot.x,
                            center_y + minute_dot.y, 4,
                            12 * s_current.minute - 180,
                            MarkColor(s_settings.dark_mode)) >>
         ELSE << >>)

\* the hour, minute and second marks, in the order they are drawn, each on
\* the path of radius 50 around the centre
DrawMarks(center_x, center_y) ==
    LET h12          == CMod(s_current.hour, 12)
        display_hour == IF h12 = 0 THEN 12 ELSE h12
        hour_dot     == HourMarkOffset[display_hour][s_current.minute]
        minute_dot   == MinuteMarkOffset[s_current.minute]
        dot          == MinuteMarkOffset[s_current.second]
    IN  (IF s_settings.show_hour_minute_dots
         THEN << FillCircle("hour_mark", center_x + hour_dot.x,
                            center_y + hour_dot.y, 4,
                            60 * display_hour + s_current.minute - 180,
                            MarkColor(s_settings.dark_mode)),
                 FillCircle("minute_mark", center_x + minute_dot.x,
                            center_y + minute_dot.y, 4,
                            12 * s_current.minute - 180,
                            MarkColor(s_settings.dark_mode)) >>
         ELSE << >>)
        \o
        (IF s_settings.show_second_dot
         THEN << FillCircle("second_mark", center_x + dot.x,
                            center_y + dot.y, 4,
                            12 * s_current.second - 180,
                            ForegroundColor(s_settings.dark_mode)) >>
         ELSE << >>)

canvas_update_proc ==
    /\ loaded
    /\ LET tick_time == now
           entry     == DebugTable[(s_debug_counter % 20) + 1]
           hour0     == IF s_settings.debug_mode THEN entry[1]
                        ELSE tick_time.tm_hour
           minute    == IF s_settings.debug_mode THEN entry[2]
                        ELSE tick_time.tm_min
           day_of_week == IF s_settings.debug_mode
                          THEN CMod(CDiv(s_debug_counter, 5), 7)
                          ELSE tick_time.tm_wday
           use_24_hour == IF s_settings.use_24_hour_format THEN TRUE
                          ELSE clock_24h
           hour == DisplayHour(hour0, use_24_hour)
           d == [hour_tens   |-> CDiv(hour, 10),
                 hour_ones   |-> CMod(hour, 10),
                 minute_tens |-> CDiv(minute, 10),
                 minute_ones |-> CMod(minute, 10)]
           type        == ClassifyDigits(d.hour_tens)
           total_width == TotalWidth(d.hour_tens, type)
           center_x    == CDiv(bounds.w, 2)
           center_y    == CDiv(bounds.h, 2)
           time_display_x == StartX(bounds.w, total_width)
           time_display_y == CDiv(bounds.h - SPRITE_HEIGHT, 2)
           start_x == StartX(bounds.w, total_width)
           y_pos   == CDiv(bounds.h - SPRITE_HEIGHT, 2)
           block   == DrawTimeBlock(d, type, start_x, y_pos)
           left    == widgets_draw_corner(CORNER_TOP_LEFT, tick_time)
           right   == widgets_draw_corner(CORNER_TOP_RIGHT, tick_time)
       IN  frame' =
             [drawn |-> TRUE,
              calls |-> << FillRect("background", 0, 0, bounds.w, bounds.h,
                                    BackgroundColor(s_settings.dark_mode)) >>
                        \o DrawMarks(center_x, center_y)
                        \o << FillRect("time_rect", time_display_x,
                                       time_display_y, total_width,
                                       SPRITE_HEIGHT,
                                       BackgroundColor(s_settings.dark_mode)) >>
                        \o block.calls
                        \o left.calls
                        \o right.calls
                        \o DrawDayAbbrev(day_of_week),
              loc |-> [hour |-> hour, minute |-> minute,
                       day_of_week |-> day_of_week,
                       use_24_hour |-> use_24_hour,
                       digit |-> d, type |-> type,
                       total_width |-> total_width,
                       start_x |-> start_x, y_pos |-> y_pos,
                       current_x |-> block.current_x],
              corners |-> << left, right >>,
              tick_time |-> tick_time]
    /\ dirty' = FALSE
    /\ UNCHANGED << s_settings, persist, s_settings_dark_mode,
                    s_widget_config, s_battery_percent, s_step_count,
                    s_step_goal, sprites, s_debug_counter, s_debug_timer,
                    s_current, loaded, legacy, now, clock_24h, bounds,
                    resources, build >>

----------------------------------------------------------------------------
(* Start-up: init() up to window_stack_push, then main_window_load *)

\* widgets_init, the four sheets of the widget module
WidgetSheets == {"battery", "steps", "date", "am_pm"}

TimeSheets == {"priority", "subpriority", "midpriority", "day"}

\* an init() that keeps the debug switches it read from storage
init_StoredDebugKept(env) ==
    /\ build \in env.builds
    /\ persist \in env.stores
    /\ now \in env.clocks
    /\ clock_24h \in env.styles
    /\ bounds \in env.screens
    /\ resources \in env.resources
    /\ s_battery_percent \in env.batteries
    /\ s_step_count \in env.steps
    /\ LET loaded_settings == prv_load_settings(get_default_settings)
           settings == loaded_settings
       IN  /\ s_settings = settings
           /\ s_settings_dark_mode = settings.dark_mode
           /\ s_debug_counter = 0
           /\ s_debug_timer = settings.debug_mode
           /\ sprites = [id \in SheetNames |->
                           IF id \in WidgetSheets
                           THEN IF settings.dark_mode
                                THEN invert_bitmap_palette(
                                         gbitmap_create_with_resource(id))
                                ELSE gbitmap_create_with_resource(id)
                           ELSE NullSheet]
           /\ s_widget_config = settings.widget_config
           \* widgets.c:13 starts s_step_goal at 10000
           /\ s_step_goal = widgets_set_step_goal(10000, settings.step_goal)
    /\ s_current = [second |-> 0, minute |-> 0, hour |-> 0]
    /\ loaded = FALSE
    /\ dirty = FALSE
    /\ frame = NoFrame

\* The state init() leaves behind.  env gives the sets the surroundings are
\* drawn from: what is in persistent storage, the wall clock, the system's
\* 12/24-hour style, the screen, the loadable resources, the battery level,
\* the day's step count and the compile-time switches.
init(env) ==
    /\ build \in env.builds
    /\ persist \in env.stores
    /\ now \in env.clocks
    /\ clock_24h \in env.styles
    /\ bounds \in env.screens
    /\ resources \in env.resources
    /\ s_battery_percent \in env.batteries
    /\ s_step_count \in env.steps
    /\ LET loaded_settings == prv_load_settings(get_default_settings)
           settings == [loaded_settings EXCEPT
                           !.debug_mode    = build.DEFAULT_DEBUG_MODE,
                           !.debug_logging = build.DEFAULT_DEBUG_LOGGING]
       IN  /\ s_settings = settings
           /\ s_settings_dark_mode = settings.dark_mode
           /\ s_debug_counter = 0
           /\ s_debug_timer = settings.debug_mode
           /\ sprites = [id \in SheetNames |->
                           IF id \in WidgetSheets
                           THEN IF settings.dark_mode
                                THEN invert_bitmap_palette(
                                         gbitmap_create_with_resource(id))
                                ELSE gbitmap_create_with_resource(id)
                           ELSE NullSheet]
           /\ s_widget_config = settings.widget_config
           \* widgets.c:13 starts s_step_goal at 10000
           /\ s_step_goal = widgets_set_step_goal(10000, settings.step_goal)
    /\ s_current = [second |-> 0, minute |-> 0, hour |-> 0]
    /\ loaded = FALSE
    /\ dirty = FALSE
    /\ frame = NoFrame

main_window_load ==
    /\ ~loaded
    /\ s_current' = [second |-> now.tm_sec, minute |-> now.tm_min,
                     hour |-> now.tm_hour]
    /\ sprites' = [id \in SheetNames |->
                     IF id \in TimeSheets
                     THEN IF s_settings.dark_mode
                          THEN invert_bitmap_palette(
                                   gbitmap_create_with_resource(id))
                          ELSE gbitmap_create_with_resource(id)
                     ELSE sprites[id]]
    /\ loaded' = TRUE
    /\ dirty' = TRUE
    /\ UNCHANGED << s_settings, persist, s_settings_dark_mode,
                    s_widget_config, s_battery_percent, s_step_count,
                    s_step_goal, s_debug_counter, s_debug_timer, frame,
                    legacy, now, clock_24h, bounds, resources, build >>

----------------------------------------------------------------------------
(* The clock, the tick service and the debug timer *)

\* One second passes on the wall clock that time() reads.  The model follows
\* the clock over the turn of a minute or an hour, from second 58 up to
\* second MaxTickSecond, and never over midnight.
time_advances ==
    /\ now.tm_sec >= 58 \/ now.tm_sec < MaxTickSecond
    /\ ~(now.tm_hour = 23 /\ now.tm_min = 59 /\ now.tm_sec = 59)
    /\ now' = IF now.tm_sec < 59
              THEN [now EXCEPT !.tm_sec = now.tm_sec + 1]
              ELSE IF now.tm_min < 59
              THEN [now EXCEPT !.tm_sec = 0, !.tm_min = now.tm_min + 1]
              ELSE [now EXCEPT !.tm_sec = 0, !.tm_min = 0,
                               !.tm_hour = now.tm_hour + 1]
    /\ UNCHANGED << s_settings, persist, s_settings_dark_mode,
                    s_widget_config, s_battery_percent, s_step_count,
                    s_step_goal, sprites, s_debug_counter, s_debug_timer,
                    s_current, loaded, dirty, frame, legacy, clock_24h,
                    bounds, resources, build >>

\* The units the tick service reports as changed: those in which the clock
\* differs from the tick delivered last (at first, from the sample
\* main_window_load took when it subscribed).
UnitsChanged(tick_time) ==
    (IF tick_time.tm_sec # s_current.second THEN {"SECOND_UNIT"} ELSE {})
    \cup (IF tick_time.tm_min # s_current.minute THEN {"MINUTE_UNIT"} ELSE {})
    \cup (IF tick_time.tm_hour # s_current.hour THEN {"HOUR_UNIT"} ELSE {})

\* a tick_handler that stores the second and the hour but not the minute
tick_handler_MinuteNotStored ==
    /\ loaded
    /\ LET tick_time     == now
           units_changed ==
               (IF tick_time.tm_sec # s_current.second
                THEN {"SECOND_UNIT"} ELSE {})
               \cup (IF tick_time.tm_min # s_current.minute
                     THEN {"MINUTE_UNIT"} ELSE {})
               \cup (IF tick_time.tm_hour # s_current.hour
                     THEN {"HOUR_UNIT"} ELSE {})
       IN  /\ units_changed # {}
           /\ s_current' =
                 [second |-> IF "SECOND_UNIT" \in units_changed
                             THEN tick_time.tm_sec ELSE s_current.second,
                  minute |-> s_current.minute,
                  hour   |-> IF "HOUR_UNIT" \in units_changed
                             THEN tick_time.tm_hour ELSE s_current.hour]
    /\ dirty' = TRUE
    /\ UNCHANGED << s_settings, persist, s_settings_dark_mode,
                    s_widget_config, s_battery_percent, s_step_count,
                    s_step_goal, sprites, s_debug_counter, s_debug_timer,
                    loaded, frame, legacy, now, clock_24h, bounds,
                    resources, build >>

\* tick_handler, called by the tick service main_window_load subscribed to
\* once the clock has moved on
tick_handler ==
    /\ loaded
    /\ LET tick_time     == now
           units_changed == UnitsChanged(tick_time)
       IN  /\ units_changed # {}
           /\ s_current' =
                 [second |-> IF "SECOND_UNIT" \in units_changed
                             THEN tick_time.tm_sec ELSE s_current.second,
                  minute |-> IF "MINUTE_UNIT" \in units_changed
                             THEN tick_time.tm_min ELSE s_current.minute,
                  hour   |-> IF "HOUR_UNIT" \in units_changed
                             THEN tick_time.tm_hour ELSE s_current.hour]
    /\ dirty' = TRUE
    /\ UNCHANGED << s_settings, persist, s_settings_dark_mode,
                    s_widget_config, s_battery_percent, s_step_count,
                    s_step_goal, sprites, s_debug_counter, s_debug_timer,
                    loaded, frame, legacy, now, clock_24h, bounds,
                    resources, build >>

\* health_event_handler of the widget module, subscribed by widgets_init:
\* the health service reports an update and the day's steps are summed
\* anew.  The event loop delivers it once the window is on the stack.
health_event_handler(step_counts) ==
    /\ loaded
    /\ \E steps \in step_counts : s_step_count' = steps
    /\ dirty' = TRUE
    /\ UNCHANGED << s_settings, persist, s_settings_dark_mode,
                    s_widget_config, s_battery_percent, s_step_goal,
                    sprites, s_debug_counter, s_debug_timer, s_current,
                    loaded, frame, legacy, now, clock_24h, bounds,
                    resources, build >>

\* debug_timer_callback, the counter after s_debug_counter++ and the reset
DebugCounterStep(counter) ==
    IF counter + 1 > 100 THEN 0 ELSE counter + 1

\* debug_timer_callback: the timer registered by init() or by the callback
\* before has expired.  The event loop serves timers once the window that
\* init() pushed is loaded.
debug_timer_callback ==
    /\ loaded
    /\ s_debug_timer
    /\ IF s_settings.debug_mode
       THEN /\ s_debug_counter' = DebugCounterStep(s_debug_counter)
            /\ dirty' = TRUE
            /\ s_debug_timer' = TRUE
       ELSE /\ s_debug_timer' = FALSE
            /\ UNCHANGED << s_debug_counter, dirty >>
    /\ UNCHANGED << s_settings, persist, s_settings_dark_mode,
                    s_widget_config, s_battery_percent, s_step_count,
                    s_step_goal, sprites, s_current, loaded, frame, legacy,
                    now, clock_24h, bounds, resources, build >>

----------------------------------------------------------------------------
(* The earlier revision of the renderer, src/unnamed/part_000 lines        *)
(* 346-1399.  It has its own settings record and its own six sheets, and  *)
(* draws the month or the AM/PM indicator in the top left corner and the   *)
(* day of the month in the top right corner itself.                        *)

LegacySheetNames == {"priority", "subpriority", "am_pm", "day", "date",
                     "date_half"}

\* the sheets as that revision's #defines describe them: date-half.png is
\* a 4x3 grid of 10x14 glyphs
LegacySheetSize(id) ==
    CASE id = "priority"    -> [w |-> SPRITES_PER_ROW * PRIORITY_WIDTH,
                                h |-> SPRITES_PER_COLUMN * SPRITE_HEIGHT]
      [] id = "subpriority" -> [w |-> SPRITES_PER_ROW * LEGACY_SUBPRIORITY_WIDTH,
                                h |-> SPRITES_PER_COLUMN * SPRITE_HEIGHT]
      [] id = "am_pm"       -> [w |-> 20, h |-> 2 * 14]
      [] id = "day"         -> [w |-> DAY_SPRITES_PER_ROW * DAY_WIDTH,
                                h |-> 4 * DAY_HEIGHT]
      [] id = "date"        -> [w |-> DATE_SPRITES_PER_ROW * DATE_WIDTH,
                                h |-> 4 * DATE_HEIGHT]
      [] id = "date_half"   -> [w |-> DATE_HALF_SPRITES_PER_ROW * DATE_HALF_WIDTH,
                                h |-> 3 * DATE_HALF_HEIGHT]

LegacySheet(id) ==
    IF id \in resources
    THEN [loaded |-> TRUE, w |-> LegacySheetSize(id).w,
          h |-> LegacySheetSize(id).h, inverted |-> FALSE]
    ELSE NullSheet

\* the body the glyph helpers of that revision share: the sheet must exist
\* and have a size, the glyph must be known and its cell inside the sheet
LegacyGlyph(slot, sheet_id, sprite_index, per_row, x, y, w, h, arg) ==
    LET sheet      == legacy.sprites[sheet_id]
        sprite_row == CDiv(sprite_index, per_row)
        sprite_col == CMod(sprite_index, per_row)
        ok == /\ sheet.loaded
              /\ sheet.w > 0 /\ sheet.h > 0
              /\ sprite_index >= 0
              /\ ~ \/ sprite_col >= CDiv(sheet.w, w)
                   \/ sprite_row >= CDiv(sheet.h, h)
    IN  Call("bitmap", slot, sheet_id, sprite_row, sprite_col, x, y, w, h,
             arg, ok)

\* digits sit in both date sheets in the order 1..9, 0
DateSpriteIndex(digit) ==
    IF digit = 0 THEN 9 ELSE IF digit \in 1..9 THEN digit - 1 ELSE -1

draw_date_half_number(slot, digit, x, y) ==
    LegacyGlyph(slot, "date_half", DateSpriteIndex(digit),
                DATE_HALF_SPRITES_PER_ROW, x, y, DATE_HALF_WIDTH,
                DATE_HALF_HEIGHT, digit)

legacy_draw_date_number(slot, digit, x, y) ==
    LegacyGlyph(slot, "date", DateSpriteIndex(digit), DATE_SPRITES_PER_ROW,
                x, y, DATE_WIDTH, DATE_HEIGHT, digit)

legacy_draw_day_char(character, x, y) ==
    LegacyGlyph("day_char", "day", DaySpriteIndex(character),
                DAY_SPRITES_PER_ROW, x, y, DAY_WIDTH, DAY_HEIGHT,
                DaySpriteIndex(character))

legacy_digit_width(type) ==
    IF type = "DIGIT_PRIORITY" THEN PRIORITY_WIDTH
    ELSE LEGACY_SUBPRIORITY_WIDTH

legacy_draw_digit(slot, digit, type, x, y) ==
    LegacyGlyph(slot, DigitSheet(type), IF digit = 0 THEN 9 ELSE digit - 1,
                SPRITES_PER_ROW, x, y, legacy_digit_width(type),
                SPRITE_HEIGHT, digit)

draw_month_number(slot, month, x, y) ==
    LET month_number  == month + 1
        month_tens    == CDiv(month_number, 10)
        month_ones    == CMod(month_number, 10)
        digit_spacing == 2
        repeating_digits == month_tens = month_ones
        use_mixed_sizes  == month_tens = 1 /\ ~repeating_digits
        date_sprites      == legacy.sprites["date"].loaded
        date_half_sprites == legacy.sprites["date_half"].loaded
    IN  IF month_number < 10
        THEN IF date_sprites
             THEN << legacy_draw_date_number(slot, month_number, x, y) >>
             ELSE << >>
        ELSE IF use_mixed_sizes /\ date_half_sprites /\ date_sprites
        THEN << draw_date_half_number(slot, month_tens, x, y),
                legacy_draw_date_number(slot, month_ones,
                    x + DATE_HALF_WIDTH + digit_spacing, y) >>
        ELSE IF date_sprites
        THEN << legacy_draw_date_number(slot, month_tens, x, y),
                legacy_draw_date_number(slot, month_ones,
                    x + DATE_WIDTH + digit_spacing, y) >>
        ELSE << >>

\* canvas_update_proc of that revision, the top left corner: the AM/PM
\* indicator when it is switched on in 12-hour mode, else the month
LegacyTopLeft(tick_time) ==
    LET is_pm     == tick_time.tm_hour >= 12
        am_pm_row == IF is_pm THEN 0 ELSE 1
    IN  IF legacy.s_settings.show_am_pm
           /\ ~legacy.s_settings.use_24_hour_format
        THEN IF legacy.sprites["am_pm"].loaded
             THEN << Call("bitmap", "top_left", "am_pm", am_pm_row, 0,
                          10, 10, 20, 14, am_pm_row, TRUE) >>
             ELSE << >>
        ELSE IF legacy.sprites["date"].loaded
        THEN draw_month_number("top_left", tick_time.tm_mon, 10, 10)
        ELSE << >>

\* canvas_update_proc of that revision, the width it computes for the day
\* of the month
LegacyDayWidth(calendar_day) ==
    LET digit_spacing == 2
        day_tens == CDiv(calendar_day, 10)
        day_ones == CMod(calendar_day, 10)
        repeating_digits == day_tens = day_ones
        use_mixed_sizes  == day_tens \in {1, 2, 3} /\ ~repeating_digits
    IN  IF calendar_day < 10 THEN DATE_WIDTH
        ELSE IF use_mixed_sizes /\ legacy.sprites["date_half"].loaded
        THEN DATE_HALF_WIDTH + DATE_WIDTH + digit_spacing
        ELSE DATE_WIDTH * 2 + digit_spacing

\* canvas_update_proc of that revision, the glyphs of the day of the month
LegacyDrawDay(calendar_day, start_x, y_pos) ==
    LET digit_spacing == 2
        day_tens == CDiv(calendar_day, 10)
        day_ones == CMod(calendar_day, 10)
        repeating_digits == day_tens = day_ones
        use_mixed_sizes  == day_tens \in {1, 2, 3} /\ ~repeating_digits
        date_sprites      == legacy.sprites["date"].loaded
        date_half_sprites == legacy.sprites["date_half"].loaded
    IN  IF calendar_day < 10
        THEN IF date_sprites
             THEN << legacy_draw_date_number("top_right", calendar_day,
                                             start_x, y_pos) >>
             ELSE << >>
        ELSE IF use_mixed_sizes /\ date_half_sprites /\ date_sprites
        THEN << draw_date_half_number("top_right", day_tens, start_x, y_pos),
                legacy_draw_date_number("top_right", day_ones,
                    start_x + DATE_HALF_WIDTH + digit_spacing, y_pos) >>
        ELSE IF date_sprites
        THEN << legacy_draw_date_number("top_right", day_tens, start_x,
                                        y_pos),
                legacy_draw_date_number("top_right", day_ones,
                    start_x + DATE_WIDTH + digit_spacing, y_pos) >>
        ELSE << >>

\* canvas_update_proc of that revision, the top right corner
LegacyTopRight(tick_time) ==
    LET padding_top   == 10
        padding_right == 10
        calendar_day  == tick_time.tm_mday
        day_number_width == LegacyDayWidth(calendar_day)
        start_x == bounds.w - day_number_width - padding_right
        y_pos   == padding_top
    IN  IF legacy.sprites["date"].loaded \/ legacy.sprites["date_half"].loaded
        THEN [entered |-> TRUE, day_number_width |-> day_number_width,
              start_x |-> start_x, y_pos |-> y_pos,
              calls |-> LegacyDrawDay(calendar_day, start_x, y_pos)]
        ELSE [entered |-> FALSE, day_number_width |-> 0, start_x |-> 0,
              y_pos |-> 0, calls |-> << >>]

\* that revision knows two size classes: only the ones digit of a
\* single-digit hour is wide
LegacyClassifyDigits(hour_tens) ==
    [hour_tens   |-> "DIGIT_SUBPRIORITY",
     hour_ones   |-> IF hour_tens = 0 THEN "DIGIT_PRIORITY"
                     ELSE "DIGIT_SUBPRIORITY",
     minute_tens |-> "DIGIT_SUBPRIORITY",
     minute_ones |-> "DIGIT_SUBPRIORITY"]

LegacyTotalWidth(hour_tens, type) ==
    LET colon_width   == 8
        digit_spacing == 2
    IN  (IF hour_tens > 0
         THEN legacy_digit_width(type.hour_tens) + digit_spacing ELSE 0)
        + legacy_digit_width(type.hour_ones) + digit_spacing
        + colon_width + digit_spacing
        + legacy_digit_width(type.minute_tens) + digit_spacing
        + legacy_digit_width(type.minute_ones)

LegacyDrawTimeBlock(d, type, start_x, y_pos) ==
    LET colon_width   == 8
        digit_spacing == 2
        x1 == IF d.hour_tens > 0
              THEN start_x + legacy_digit_width(type.hour_tens) + digit_spacing
              ELSE start_x
        x2 == x1 + legacy_digit_width(type.hour_ones) + digit_spacing
        x3 == x2 + colon_width + digit_spacing
        x4 == x3 + legacy_digit_width(type.minute_tens) + digit_spacing
    IN  (IF d.hour_tens > 0
         THEN << legacy_draw_digit("hour_tens", d.hour_tens, type.hour_tens,
                                   start_x, y_pos) >>
         ELSE << >>)
        \o << legacy_draw_digit("hour_ones", d.hour_ones, type.hour_ones,
                                x1, y_pos),
              FillRect("colon", x2 + 2, y_pos + 4, 4, 4,
                           ForegroundColor(legacy.s_settings.dark_mode)),
              FillRect("colon", x2 + 2, y_pos + 10, 4, 4,
                           ForegroundColor(legacy.s_settings.dark_mode)),
              legacy_draw_digit("minute_tens", d.minute_tens,
                                type.minute_tens, x3, y_pos),
              legacy_draw_digit("minute_ones", d.minute_ones,
                                type.minute_ones, x4, y_pos) >>

\* that revision always draws all three marks
LegacyMarks(center_x, center_y) ==
    LET h12          == CMod(legacy.s_current.hour, 12)
        display_hour == IF h12 = 0 THEN 12 ELSE h12
        hour_dot     == HourMarkOffset[display_hour][legacy.s_current.minute]
        minute_dot   == MinuteMarkOffset[legacy.s_current.minute]
        dot          == MinuteMarkOffset[legacy.s_current.second]
    IN  << FillCircle("hour_mark", center_x + hour_dot.x,
                            center_y + hour_dot.y, 4,
                            60 * display_hour + legacy.s_current.minute - 180,
                            MarkColor(legacy.s_settings.dark_mode)),
           FillCircle("minute_mark", center_x + minute_dot.x,
                            center_y + minute_dot.y, 4,
                            12 * legacy.s_current.minute - 180,
                            MarkColor(legacy.s_settings.dark_mode)),
           FillCircle("second_mark", center_x + dot.x,
                            center_y + dot.y, 4,
                            12 * legacy.s_current.second - 180,
                            ForegroundColor(legacy.s_settings.dark_mode)) >>

LegacyDayAbbrev(day_of_week) ==
    LET two_letter == legacy.s_settings.use_two_letter_day
        day_abbrev == DayAbbrev(day_of_week, two_letter)
        y_pos    == bounds.h - DAY_HEIGHT - 10
        start_x  == 10
        middle_x == CDiv(bounds.w - DAY_WIDTH, 2)
        right_x  == bounds.w - DAY_WIDTH - 10
    IN  IF ~legacy.sprites["day"].loaded THEN << >>
        ELSE IF two_letter
        THEN << legacy_draw_day_char(day_abbrev[1], start_x, y_pos),
                legacy_draw_day_char(day_abbrev[2], right_x, y_pos) >>
        ELSE << legacy_draw_day_char(day_abbrev[1], start_x, y_pos),
                legacy_draw_day_char(day_abbrev[2], middle_x, y_pos),
                legacy_draw_day_char(day_abbrev[3], right_x, y_pos) >>

\* the settings that revision starts from when nothing is stored
LegacyDefaultSettings ==
    [dark_mode |-> FALSE, show_am_pm |-> FALSE,
     use_24_hour_format |-> FALSE, use_two_letter_day |-> FALSE]

\* init() of that revision up to window_stack_push
legacy_init(env) ==
    legacy \in
        {[s_settings |-> IF store.exists THEN store.data
                         ELSE LegacyDefaultSettings,
          sprites    |-> [id \in LegacySheetNames |-> NullSheet],
          s_current  |-> [second |-> 0, minute |-> 0, hour |-> 0],
          loaded     |-> FALSE,
          frame      |-> NoFrame] : store \in env.legacy_stores}

legacy_main_window_load ==
    /\ ~legacy.loaded
    /\ legacy' =
         [legacy EXCEPT
            !.s_current = [second |-> now.tm_sec, minute |-> now.tm_min,
                           hour |-> now.tm_hour],
            !.sprites = [id \in LegacySheetNames |->
                           IF legacy.s_settings.dark_mode
                           THEN invert_bitmap_palette(LegacySheet(id))
                           ELSE LegacySheet(id)],
            !.loaded = TRUE]
    /\ UNCHANGED << s_settings, persist, s_settings_dark_mode,
                    s_widget_config, s_battery_percent, s_step_count,
                    s_step_goal, sprites, s_debug_counter, s_debug_timer,
                    s_current, loaded, dirty, frame, now, clock_24h, bounds,
                    resources, build >>

legacy_canvas_update_proc ==
    /\ legacy.loaded
    /\ LET tick_time == now
           minute    == tick_time.tm_min
           hour == DisplayHour(tick_time.tm_hour,
                               legacy.s_settings.use_24_hour_format)
           d == [hour_tens   |-> CDiv(hour, 10),
                 hour_ones   |-> CMod(hour, 10),
                 minute_tens |-> CDiv(minute, 10),
                 minute_ones |-> CMod(minute, 10)]
           type        == LegacyClassifyDigits(d.hour_tens)
           total_width == LegacyTotalWidth(d.hour_tens, type)
           start_x     == CDiv(bounds.w - total_width, 2)
           y_pos       == CDiv(bounds.h - SPRITE_HEIGHT, 2)
           right       == LegacyTopRight(tick_time)
       IN  legacy' =
             [legacy EXCEPT !.frame =
                [drawn |-> TRUE,
                 calls |-> << FillRect("background", 0, 0, bounds.w,
                                       bounds.h,
                                       BackgroundColor(
                                           legacy.s_settings.dark_mode)) >>
                           \o LegacyMarks(CDiv(bounds.w, 2), CDiv(bounds.h, 2))
                           \o << FillRect("time_rect", start_x, y_pos,
                                          total_width, SPRITE_HEIGHT,
                                          BackgroundColor(
                                              legacy.s_settings.dark_mode)) >>
                           \o LegacyDrawTimeBlock(d, type, start_x, y_pos)
                           \o LegacyTopLeft(tick_time)
                           \o right.calls
                           \o LegacyDayAbbrev(tick_time.tm_wday),
                 top_right |-> right,
                 tick_time |-> tick_time]]
    /\ UNCHANGED << s_settings, persist, s_settings_dark_mode,
                    s_widget_config, s_battery_percent, s_step_count,
                    s_step_goal, sprites, s_debug_counter, s_debug_timer,
                    s_current, loaded, dirty, frame, now, clock_24h, bounds,
                    resources, build >>

----------------------------------------------------------------------------
(* Configuration messages, prv_inbox_received_handler *)

\* the keys of a configuration message; the configuration page also sends
\* DebugMode, which the handler never looks up
MessageKeys == {"DarkMode", "Use24HourFormat", "UseTwoLetterDay",
                "ShowSecondDot", "ShowHourMinuteDots", "StepGoal",
                "TopLeftWidget", "TopRightWidget", "DebugMode"}

\* dict_find returned NULL
NoTuple == [present |-> FALSE, type |-> "", int32 |-> 0, cstring |-> << >>]

IntTuple(n) ==
    [present |-> TRUE, type |-> "TUPLE_INT", int32 |-> n, cstring |-> << >>]

\* a string tuple; the string is the sequence of its characters
StrTuple(str) ==
    [present |-> TRUE, type |-> "TUPLE_CSTRING", int32 |-> 0, cstring |-> str]

\* value->int32 == 1.  Read from a string tuple the low byte of the int is
\* the first character, or the terminator of the empty string: never 1 for
\* a string of printable characters.
Int32Is1(t) == t.type # "TUPLE_CSTRING" /\ t.int32 = 1

DigitChars == << "0", "1", "2", "3", "4", "5", "6", "7", "8", "9" >>

IsDigitChar(c) == \E i \in 1..10 : DigitChars[i] = c

DigitValue(c) == (CHOOSE i \in 1..10 : DigitChars[i] = c) - 1

\* the value of the leading run of digits of str, continuing from acc
RECURSIVE AtoiDigits(_, _)
AtoiDigits(str, acc) ==
    IF str = << >> \/ ~IsDigitChar(Head(str)) THEN acc
    ELSE AtoiDigits(Tail(str), 10 * acc + DigitValue(Head(str)))

\* atoi: leading blanks, an optional sign, then digits up to the first
\* character that is not one; 0 when there is no digit
RECURSIVE atoi(_)
atoi(str) ==
    IF str = << >> THEN 0
    ELSE IF Head(str) = " " THEN atoi(Tail(str))
    ELSE IF Head(str) = "-" THEN -AtoiDigits(Tail(str), 0)
    ELSE IF Head(str) = "+" THEN AtoiDigits(Tail(str), 0)
    ELSE AtoiDigits(str, 0)

\* strcmp(str, "true") == 0 || strcmp(str, "1") == 0
IsTrueString(str) == str = << "t", "r", "u", "e" >> \/ str = << "1" >>

\* the flag a dot-visibility tuple carries
DotFlag(t) ==
    IF t.type = "TUPLE_CSTRING" THEN IsTrueString(t.cstring)
    ELSE t.int32 = 1

\* the step goal a StepGoal tuple carries: only the string path replaces a
\* value that is not positive
StepGoalValue(t) ==
    IF t.type = "TUPLE_CSTRING"
    THEN IF atoi(t.cstring) <= 0 THEN 10000 ELSE atoi(t.cstring)
    ELSE t.int32

\* the widget type a widget tuple carries, cast unchecked to WidgetType
WidgetValue(t) ==
    IF t.type = "TUPLE_CSTRING" THEN atoi(t.cstring) ELSE t.int32

\* a handler that falls back to the default step goal and to visible
\* hour and minute dots when the key is absent, as it does for the widgets
ReceivedSettings_AbsentKeysDefaulted(iter) ==
    LET set(old, key, new) == IF iter[key].present THEN new ELSE old
    IN  [s_settings EXCEPT
            !.dark_mode = set(@, "DarkMode", Int32Is1(iter["DarkMode"])),
            !.use_24_hour_format =
                set(@, "Use24HourFormat", Int32Is1(iter["Use24HourFormat"])),
            !.use_two_letter_day =
                set(@, "UseTwoLetterDay", Int32Is1(iter["UseTwoLetterDay"])),
            !.show_second_dot =
                set(@, "ShowSecondDot", DotFlag(iter["ShowSecondDot"])),
            !.show_hour_minute_dots =
                set(TRUE, "ShowHourMinuteDots",
                    DotFlag(iter["ShowHourMinuteDots"])),
            !.step_goal = set(DEFAULT_STEP_GOAL, "StepGoal",
                              StepGoalValue(iter["StepGoal"])),
            !.widget_config =
                [top_left_widget |->
                    IF iter["TopLeftWidget"].present
                    THEN WidgetValue(iter["TopLeftWidget"])
                    ELSE WIDGET_MONTH_DATE,
                 top_right_widget |->
                    IF iter["TopRightWidget"].present
                    THEN WidgetValue(iter["TopRightWidget"])
                    ELSE WIDGET_DAY_DATE]]

\* s_settings as the handler leaves it for message iter
ReceivedSettings(iter) ==
    LET set(old, key, new) == IF iter[key].present THEN new ELSE old
    IN  [s_settings EXCEPT
            !.dark_mode = set(@, "DarkMode", Int32Is1(iter["DarkMode"])),
            !.use_24_hour_format =
                set(@, "Use24HourFormat", Int32Is1(iter["Use24HourFormat"])),
            !.use_two_letter_day =
                set(@, "UseTwoLetterDay", Int32Is1(iter["UseTwoLetterDay"])),
            !.show_second_dot =
                set(@, "ShowSecondDot", DotFlag(iter["ShowSecondDot"])),
            !.show_hour_minute_dots =
                set(@, "ShowHourMinuteDots",
                    DotFlag(iter["ShowHourMinuteDots"])),
            !.step_goal = set(@, "StepGoal", StepGoalValue(iter["StepGoal"])),
            !.widget_config =
                [top_left_widget |->
                    IF iter["TopLeftWidget"].present
                    THEN WidgetValue(iter["TopLeftWidget"])
                    ELSE WIDGET_MONTH_DATE,
                 top_right_widget |->
                    IF iter["TopRightWidget"].present
                    THEN WidgetValue(iter["TopRightWidget"])
                    ELSE WIDGET_DAY_DATE]]

\* a reload that forgets to invert the fresh sheets
ReloadedSprites_NeverInverted(dark_mode) ==
    [id \in SheetNames |-> gbitmap_create_with_resource(id)]

\* prv_reload_sprites and widgets_reload_sprites: all eight sheets are
\* loaded afresh and inverted when dark mode is on
ReloadedSprites(dark_mode) ==
    [id \in SheetNames |->
        IF dark_mode
        THEN invert_bitmap_palette(gbitmap_create_with_resource(id))
        ELSE gbitmap_create_with_resource(id)]

\* a handler that leaves the widget module's dark flag as it was
prv_inbox_received_handler_FlagNotLinked(messages) ==
    /\ loaded
    /\ \E iter \in messages :
          LET settings == ReceivedSettings(iter)
              dark_mode_changed == s_settings.dark_mode # settings.dark_mode
          IN  /\ s_settings' = settings
              /\ s_step_goal' = IF iter["StepGoal"].present
                                THEN widgets_set_step_goal(s_step_goal,
                                                           settings.step_goal)
                                ELSE s_step_goal
              /\ s_widget_config' = settings.widget_config
              /\ persist' = prv_save_settings(settings)
              /\ sprites' = IF dark_mode_changed
                            THEN ReloadedSprites(settings.dark_mode)
                            ELSE sprites
              /\ dirty' = TRUE
    /\ UNCHANGED << s_settings_dark_mode, s_battery_percent, s_step_count,
                    s_debug_counter, s_debug_timer, s_current, loaded, frame,
                    legacy, now, clock_24h, bounds, resources, build >>

prv_inbox_received_handler(messages) ==
    /\ loaded
    /\ \E iter \in messages :
          LET settings == ReceivedSettings(iter)
              dark_mode_changed == s_settings.dark_mode # settings.dark_mode
          IN  /\ s_settings' = settings
              /\ s_step_goal' = IF iter["StepGoal"].present
                                THEN widgets_set_step_goal(s_step_goal,
                                                           settings.step_goal)
                                ELSE s_step_goal
              /\ s_widget_config' = settings.widget_config
              /\ s_settings_dark_mode' = settings.dark_mode
              /\ persist' = prv_save_settings(settings)
              /\ sprites' = IF dark_mode_changed
                            THEN ReloadedSprites(settings.dark_mode)
                            ELSE sprites
              /\ dirty' = TRUE
    /\ UNCHANGED << s_battery_percent, s_step_count, s_debug_counter,
                    s_debug_timer, s_current, loaded, frame, legacy,
                    now, clock_24h, bounds, resources, build >>

\* a message carrying the given tuples and no other key
Message(tuples) ==
    [key \in MessageKeys |->
        IF key \in DOMAIN tuples THEN tuples[key] ELSE NoTuple]

----------------------------------------------------------------------------
(* The surroundings the specifications draw from *)

\* config.h as shipped: both debug switches are off
ShippedBuild ==
    [DEFAULT_DEBUG_MODE |-> FALSE, DEFAULT_DEBUG_LOGGING |-> FALSE,
     narrow_sheets |-> {}, short_sheets |-> {}]

ShippedSettings == DefaultSettings(ShippedBuild)

Stored(settings) == [exists |-> TRUE, data |-> settings]

Clock(h, m, sec, mday, mon, wday) ==
    [tm_hour |-> h, tm_min |-> m, tm_sec |-> sec, tm_mday |-> mday,
     tm_mon |-> mon, tm_wday |-> wday]

\* 144 x 168 is the rectangular watch, 180 x 180 the round one
ScreenWidths == (144 .. 144 + MaxExtraWidth) \cup {180}

Screens == {[w |-> w, h |-> IF w = 180 THEN 180 ELSE 168] : w \in ScreenWidths}

----------------------------------------------------------------------------
(* SpecTime: the digit block over every hour and minute, both 12/24-hour   *)
(* settings, both system styles and every screen width.                   *)

EnvTime ==
    [builds    |-> {ShippedBuild},
     stores    |-> {NoRecord,
                    Stored([ShippedSettings EXCEPT
                               !.use_24_hour_format = TRUE])},
     clocks    |-> {Clock(h, m, 0, 1, 0, 0) : h \in 0..23, m \in 0..59},
     styles    |-> BOOLEAN,
     screens   |-> Screens,
     resources |-> {SheetNames},
     batteries |-> {100},
     steps     |-> {0},
     legacy_stores |-> {NoRecord}]

InitTime == init(EnvTime) /\ legacy_init(EnvTime)

NextTime == main_window_load \/ canvas_update_proc

SpecTime == InitTime /\ [][NextTime]_vars

----------------------------------------------------------------------------
(* SpecWidgets: the two top corners over every day of the month, every     *)
(* month, every widget type a message can set (known or not), in both      *)
(* corners, next to the earlier revision's corners on the same clock.      *)

AllResources == SheetNames \cup LegacySheetNames

\* one clock per day of the month; the months, the weekdays and both
\* halves of the day all occur
WidgetClocks ==
    {Clock(IF mday % 2 = 0 THEN 15 ELSE 9, 41, 20, mday, (mday - 1) % 12,
           mday % 7) : mday \in 1..31}

\* Messages that set both corners, the type as an int or as a string the
\* way Clay sends it; one that omits both keys; one with a negative type.
WidgetMessages ==
    {Message([TopLeftWidget  |-> IntTuple(v),
              TopRightWidget |->
                  StrTuple(<< DigitChars[((v + 3) % (MaxWidgetValue + 1)) + 1] >>)])
        : v \in 0..MaxWidgetValue}
    \cup {Message(<< >>),
          Message([TopLeftWidget  |-> StrTuple(<< "-", "1" >>),
                   TopRightWidget |-> IntTuple(-1)])}

EnvWidgets ==
    [builds    |-> {ShippedBuild},
     stores    |-> {NoRecord},
     clocks    |-> WidgetClocks,
     styles    |-> {FALSE},
     screens   |-> Screens,
     resources |-> {AllResources, AllResources \ {"date_half"}},
     batteries |-> {55},
     steps     |-> {4000},
     legacy_stores |-> {NoRecord}]

InitWidgets == init(EnvWidgets) /\ legacy_init(EnvWidgets)

NextWidgets ==
    \/ main_window_load
    \/ canvas_update_proc
    \/ prv_inbox_received_handler(WidgetMessages)
    \/ legacy_main_window_load
    \/ legacy_canvas_update_proc

SpecWidgets == InitWidgets /\ [][NextWidgets]_vars

----------------------------------------------------------------------------
(* SpecMarks: the radial marks over every second, with each combination of *)
(* the two dot switches stored or set by a message, in light and dark      *)
(* mode, while the clock runs over the turn of a minute and of an hour.    *)

MarkClocks ==
    {Clock(hm[1], hm[2], sec, 15, 5, 1) :
        hm \in {<< 9, 59 >>, << 12, 0 >>, << 23, 30 >>}, sec \in 0..59}

MarkStores ==
    {NoRecord,
     Stored([ShippedSettings EXCEPT !.show_second_dot = TRUE]),
     Stored([ShippedSettings EXCEPT !.show_second_dot = TRUE,
                                    !.show_hour_minute_dots = FALSE,
                                    !.dark_mode = TRUE]),
     Stored([ShippedSettings EXCEPT !.show_hour_minute_dots = FALSE])}

\* the dot switches the way Clay sends them, as strings and as ints
MarkMessages ==
    {Message([ShowSecondDot      |-> StrTuple(<< "t", "r", "u", "e" >>),
              ShowHourMinuteDots |-> IntTuple(1)]),
     Message([ShowSecondDot      |-> IntTuple(0),
              ShowHourMinuteDots |-> StrTuple(<< "f", "a", "l", "s", "e" >>)])}

EnvMarks ==
    [builds    |-> {ShippedBuild},
     stores    |-> MarkStores,
     clocks    |-> MarkClocks,
     styles    |-> {FALSE},
     screens   |-> Screens,
     resources |-> {SheetNames},
     batteries |-> {100},
     steps     |-> {0},
     legacy_stores |-> {NoRecord}]

InitMarks == init(EnvMarks) /\ legacy_init(EnvMarks)

NextMarks ==
    \/ main_window_load
    \/ canvas_update_proc
    \/ prv_inbox_received_handler(MarkMessages)
    \/ time_advances
    \/ tick_handler

SpecMarks == InitMarks /\ [][NextMarks]_vars

----------------------------------------------------------------------------
(* SpecDebug: a build with DEFAULT_DEBUG_MODE switched on.  The debug      *)
(* timer runs the counter through all its values and a redraw may follow   *)
(* any callback; two wall clocks with different times and dates.           *)

DebugBuild ==
    [DEFAULT_DEBUG_MODE |-> TRUE, DEFAULT_DEBUG_LOGGING |-> FALSE,
     narrow_sheets |-> {}, short_sheets |-> {}]

DebugClocks == {Clock(9, 59, 58, 5, 2, 3), Clock(21, 15, 30, 17, 10, 6)}

EnvDebug ==
    [builds    |-> {DebugBuild},
     stores    |-> {NoRecord,
                    Stored([ShippedSettings EXCEPT
                               !.use_24_hour_format = TRUE,
                               !.show_second_dot = TRUE])},
     clocks    |-> DebugClocks,
     styles    |-> {FALSE},
     screens   |-> {[w |-> 144, h |-> 168]},
     resources |-> {SheetNames},
     batteries |-> {100},
     steps     |-> {0},
     legacy_stores |-> {NoRecord}]

InitDebug == init(EnvDebug) /\ legacy_init(EnvDebug)

NextDebug ==
    \/ main_window_load
    \/ canvas_update_proc
    \/ debug_timer_callback

SpecDebug == InitDebug /\ [][NextDebug]_vars

----------------------------------------------------------------------------
(* SpecMissing: start-up and redraw when one of the eight sprite sheets    *)
(* cannot be loaded, next to the start-up with all of them; every widget   *)
(* type occurs in a corner, and a dark-mode message reloads the sheets.    *)

MissingResources ==
    {SheetNames} \cup {SheetNames \ {id} : id \in SheetNames}

MissingStores ==
    {NoRecord,
     Stored([ShippedSettings EXCEPT
                !.widget_config = [top_left_widget  |-> WIDGET_AM_PM_INDICATOR,
                                   top_right_widget |-> WIDGET_MONTH_DATE],
                !.use_two_letter_day = TRUE]),
     Stored([ShippedSettings EXCEPT
                !.widget_config = [top_left_widget  |-> WIDGET_STEP_COUNT,
                                   top_right_widget |-> WIDGET_DAY_DATE],
                !.use_24_hour_format = TRUE,
                !.dark_mode = TRUE])}

MissingClocks ==
    {Clock(9, 5, 20, 7, 2, 3), Clock(12, 34, 20, 25, 10, 6),
     Clock(23, 59, 40, 31, 11, 0), Clock(0, 0, 0, 1, 0, 1)}

MissingMessages ==
    {Message([DarkMode |-> IntTuple(1)]), Message([DarkMode |-> IntTuple(0)])}

EnvMissing ==
    [builds    |-> {ShippedBuild},
     stores    |-> MissingStores,
     clocks    |-> MissingClocks,
     styles    |-> {FALSE},
     screens   |-> Screens,
     resources |-> MissingResources,
     batteries |-> {55},
     steps     |-> {4000},
     legacy_stores |-> {NoRecord}]

InitMissing == init(EnvMissing) /\ legacy_init(EnvMissing)

NextMissing ==
    \/ main_window_load
    \/ canvas_update_proc
    \/ prv_inbox_received_handler(MissingMessages)

SpecMissing == InitMissing /\ [][NextMissing]_vars

----------------------------------------------------------------------------
(* SpecClipped: builds whose digit sheets are smaller than the 3 x 4 grid  *)
(* draw_digit addresses, next to the shipped build, over every hour and a  *)
(* set of minutes in which every digit occurs in both minute places.       *)

ClippedBuilds ==
    {ShippedBuild,
     [ShippedBuild EXCEPT !.short_sheets = {"priority", "subpriority"}],
     [ShippedBuild EXCEPT !.narrow_sheets = {"midpriority", "subpriority"}],
     [ShippedBuild EXCEPT !.short_sheets = {"midpriority"},
                          !.narrow_sheets = {"priority"}]}

ClippedClocks ==
    {Clock(h, m, 0, 1, 0, 0) :
        h \in 0..23, m \in {0, 6, 13, 24, 30, 39, 45, 51, 57, 58}}

EnvClipped ==
    [builds    |-> ClippedBuilds,
     stores    |-> {NoRecord,
                    Stored([ShippedSettings EXCEPT
                               !.use_24_hour_format = TRUE])},
     clocks    |-> ClippedClocks,
     styles    |-> {FALSE},
     screens   |-> Screens,
     resources |-> {SheetNames},
     batteries |-> {100},
     steps     |-> {0},
     legacy_stores |-> {NoRecord}]

InitClipped == init(EnvClipped) /\ legacy_init(EnvClipped)

NextClipped == main_window_load \/ canvas_update_proc

SpecClipped == InitClipped /\ [][NextClipped]_vars

----------------------------------------------------------------------------
(* SpecIndicator: the AM/PM indicator configured in either top corner,     *)
(* with the 12/24-hour setting stored or switched by a message, under both *)
(* system styles, in the morning and in the afternoon of several months.   *)

IndicatorStores ==
    {Stored([ShippedSettings EXCEPT
                !.widget_config = [top_left_widget  |-> WIDGET_AM_PM_INDICATOR,
                                   top_right_widget |-> WIDGET_DAY_DATE]]),
     Stored([ShippedSettings EXCEPT
                !.widget_config = [top_left_widget  |-> WIDGET_BATTERY_INDICATOR,
                                   top_right_widget |-> WIDGET_AM_PM_INDICATOR],
                !.use_24_hour_format = TRUE])}

IndicatorClocks ==
    {Clock(8, 5, 10, 3, 0, 1), Clock(15, 40, 10, 14, 6, 4),
     Clock(0, 0, 0, 28, 10, 0), Clock(23, 59, 50, 31, 11, 6)}

\* the 12/24-hour switch the way Clay sends it
IndicatorMessages ==
    {Message([Use24HourFormat |-> IntTuple(1)]),
     Message([Use24HourFormat |-> IntTuple(0)])}

EnvIndicator ==
    [builds    |-> {ShippedBuild},
     stores    |-> IndicatorStores,
     clocks    |-> IndicatorClocks,
     styles    |-> BOOLEAN,
     screens   |-> Screens,
     resources |-> {SheetNames},
     batteries |-> {55},
     steps     |-> {4000},
     legacy_stores |-> {NoRecord}]

InitIndicator == init(EnvIndicator) /\ legacy_init(EnvIndicator)

NextIndicator ==
    \/ main_window_load
    \/ canvas_update_proc
    \/ prv_inbox_received_handler(IndicatorMessages)

SpecIndicator == InitIndicator /\ [][NextIndicator]_vars

----------------------------------------------------------------------------
(* SpecConfig: configuration messages of every shape after a start from    *)
(* empty storage or from a stored record: the step goal as a string and as *)
(* an integer, positive or not, the switches one at a time and all keys    *)
(* together the way the configuration page sends them, and a message       *)
(* without any key.                                                        *)

\* a stored step goal that no message carries
StoredStepGoal == 8000

ConfigStores ==
    {NoRecord,
     Stored([ShippedSettings EXCEPT
                !.dark_mode = TRUE,
                !.use_two_letter_day = TRUE,
                !.show_second_dot = TRUE,
                !.step_goal = StoredStepGoal,
                !.widget_config = [top_left_widget  |-> WIDGET_STEP_COUNT,
                                   top_right_widget |-> WIDGET_AM_PM_INDICATOR]])}

\* step goals sent as an integer: -MaxGoalMagnitude .. MaxGoalMagnitude and
\* one of everyday size
MaxGoalMagnitude == 1

StepGoalInts == (-MaxGoalMagnitude .. MaxGoalMagnitude) \cup {7500}

\* step goals sent as a string, the way the input field sends them
StepGoalStrings ==
    {<< "7", "5", "0", "0" >>, << "0" >>, << "-", "5" >>, << >>,
     << "a", "b", "c" >>, << "1", "2", "k" >>}

ConfigMessages ==
    {Message([StepGoal |-> IntTuple(v)]) : v \in StepGoalInts}
    \cup {Message([StepGoal |-> StrTuple(str)]) : str \in StepGoalStrings}
    \cup {Message(<< >>),
          Message([DarkMode |-> IntTuple(1)]),
          Message([DarkMode |-> IntTuple(0),
                   Use24HourFormat |-> IntTuple(1)]),
          Message([UseTwoLetterDay |-> IntTuple(0),
                   ShowHourMinuteDots |-> IntTuple(0)]),
          Message([DarkMode           |-> IntTuple(1),
                   Use24HourFormat    |-> IntTuple(0),
                   UseTwoLetterDay    |-> IntTuple(1),
                   ShowSecondDot      |-> StrTuple(<< "t", "r", "u", "e" >>),
                   ShowHourMinuteDots |-> StrTuple(<< "t", "r", "u", "e" >>),
                   StepGoal           |-> StrTuple(<< "9", "0", "0", "0" >>),
                   TopLeftWidget      |-> StrTuple(<< "4" >>),
                   TopRightWidget     |-> StrTuple(<< "1" >>),
                   DebugMode          |-> IntTuple(1)])}

EnvConfig ==
    [builds    |-> {ShippedBuild},
     stores    |-> ConfigStores,
     clocks    |-> {Clock(15, 40, 10, 14, 6, 4)},
     styles    |-> {FALSE},
     screens   |-> {[w |-> 144, h |-> 168]},
     resources |-> {SheetNames},
     batteries |-> {55},
     steps     |-> {4000},
     legacy_stores |-> {NoRecord}]

InitConfig == init(EnvConfig) /\ legacy_init(EnvConfig)

NextConfig ==
    \/ main_window_load
    \/ canvas_update_proc
    \/ prv_inbox_received_handler(ConfigMessages)

SpecConfig == InitConfig /\ [][NextConfig]_vars

----------------------------------------------------------------------------
(* SpecDebugKey: the debug switches against storage and the DebugMode key. *)
(* Builds with the switches off, with debug mode on and with logging on;   *)
(* storage empty, as shipped, or written by a build that had them on.      *)
(* The switches, the counter and the timer do not depend on what is drawn, *)
(* so redraws are left to SpecDebug.                                       *)

LoggingBuild ==
    [DEFAULT_DEBUG_MODE |-> FALSE, DEFAULT_DEBUG_LOGGING |-> TRUE,
     narrow_sheets |-> {}, short_sheets |-> {}]

\* only the record with both switches on has the 24-hour format on
DebugKeyStores ==
    {NoRecord,
     Stored(ShippedSettings),
     Stored([ShippedSettings EXCEPT !.debug_mode = TRUE,
                                    !.debug_logging = TRUE,
                                    !.use_24_hour_format = TRUE])}

DebugKeyStepGoal == 7777

\* only the message with DebugMode = 1 carries DebugKeyStepGoal
DebugKeyMessages ==
    {Message([DebugMode |-> IntTuple(1),
              StepGoal  |-> IntTuple(DebugKeyStepGoal)]),
     Message([DebugMode |-> IntTuple(0)]),
     Message([DebugMode |-> StrTuple(<< "t", "r", "u", "e" >>),
              DarkMode  |-> IntTuple(1)]),
     Message([DarkMode |-> IntTuple(0)])}

EnvDebugKey ==
    [builds    |-> {ShippedBuild, DebugBuild, LoggingBuild},
     stores    |-> DebugKeyStores,
     clocks    |-> {Clock(9, 59, 58, 5, 2, 3)},
     styles    |-> {FALSE},
     screens   |-> {[w |-> 144, h |-> 168]},
     resources |-> {SheetNames},
     batteries |-> {100},
     steps     |-> {0},
     legacy_stores |-> {NoRecord}]

InitDebugKey == init(EnvDebugKey) /\ legacy_init(EnvDebugKey)

NextDebugKey ==
    \/ main_window_load
    \/ prv_inbox_received_handler(DebugKeyMessages)
    \/ debug_timer_callback

SpecDebugKey == InitDebugKey /\ [][NextDebugKey]_vars

----------------------------------------------------------------------------
(* SpecSteps: the step widget in the top left corner while the health      *)
(* service reports step counts and configuration messages set the goal.    *)

MaxSmallGoal == 3

\* goals below nine steps, a goal of nine, and the goal of config.h
StepGoals == (1 .. MaxSmallGoal) \cup {9, 45, DEFAULT_STEP_GOAL}

\* the day's steps: none, a few, and counts around the ninths of 10000
StepCounts == (0 .. MaxSmallGoal) \cup {8, 9, 10, 44, 45, 1111, 1112, 2222,
                                        5555, 8888, 9999, 10000, 12345}

StepsWidgets ==
    [top_left_widget |-> WIDGET_STEP_COUNT,
     top_right_widget |-> WIDGET_BATTERY_INDICATOR]

\* integer goals the widget module does not take
RejectedGoals == {0, -1}

StepsMessages ==
    {Message([StepGoal       |-> IntTuple(goal),
              TopLeftWidget  |-> IntTuple(WIDGET_STEP_COUNT),
              TopRightWidget |-> IntTuple(WIDGET_BATTERY_INDICATOR)]) :
        goal \in StepGoals \cup RejectedGoals}
    \cup {Message([StepGoal       |-> StrTuple(<< "2" >>),
                   TopLeftWidget  |-> IntTuple(WIDGET_STEP_COUNT),
                   TopRightWidget |-> IntTuple(WIDGET_BATTERY_INDICATOR)])}

EnvSteps ==
    [builds    |-> {ShippedBuild},
     stores    |-> {NoRecord,
                    Stored([ShippedSettings EXCEPT
                               !.widget_config = StepsWidgets]),
                    Stored([ShippedSettings EXCEPT
                               !.widget_config = StepsWidgets,
                               !.step_goal = 0])},
     clocks    |-> {Clock(15, 40, 10, 14, 6, 4)},
     styles    |-> {FALSE},
     screens   |-> {[w |-> 144, h |-> 168]},
     resources |-> {SheetNames},
     batteries |-> {55},
     steps     |-> {0, 4000},
     legacy_stores |-> {NoRecord}]

InitSteps == init(EnvSteps) /\ legacy_init(EnvSteps)

NextSteps ==
    \/ main_window_load
    \/ canvas_update_proc
    \/ prv_inbox_received_handler(StepsMessages)
    \/ health_event_handler(StepCounts)

SpecSteps == InitSteps /\ [][NextSteps]_vars

----------------------------------------------------------------------------
(* SpecDay: the day abbreviation on every weekday and every screen, in the *)
(* two-letter and the three-letter mode, stored or set by a message.       *)

\* the 4th to the 10th of January, one date for each tm_wday
DayClocks == {Clock(11, 30, 0, 4 + wday, 0, wday) : wday \in 0..6}

DayMessages ==
    {Message([UseTwoLetterDay |-> IntTuple(1)]),
     Message([UseTwoLetterDay |-> IntTuple(0)])}

EnvDay ==
    [builds    |-> {ShippedBuild},
     stores    |-> {NoRecord,
                    Stored([ShippedSettings EXCEPT
                               !.use_two_letter_day = TRUE])},
     clocks    |-> DayClocks,
     styles    |-> {FALSE},
     screens   |-> Screens,
     resources |-> {SheetNames},
     batteries |-> {100},
     steps     |-> {0},
     legacy_stores |-> {NoRecord}]

InitDay == init(EnvDay) /\ legacy_init(EnvDay)

NextDay ==
    \/ main_window_load
    \/ canvas_update_proc
    \/ prv_inbox_received_handler(DayMessages)

SpecDay == InitDay /\ [][NextDay]_vars

----------------------------------------------------------------------------
(* Claims about the digit block, checked under SpecTime *)

\* the calls of the last frame for one slot
CallsOf(slot) == SelectSeq(frame.calls, LAMBDA c : c.slot = slot)

\* the digit glyphs of the last frame, left to right
GlyphCalls ==
    SelectSeq(frame.calls,
              LAMBDA c : c.slot \in {"hour_tens", "hour_ones",
                                     "minute_tens", "minute_ones"})

\* The hour the digits show, from the clock sample and the 12/24-hour mode:
\* the hour of day in 24-hour mode, 12, 1, ..., 11 in 12-hour mode.
ShownHour ==
    IF s_settings.use_24_hour_format \/ clock_24h
    THEN frame.tick_time.tm_hour
    ELSE ((frame.tick_time.tm_hour + 11) % 12) + 1

\* the pixel width of each size class
ClassPx == [DIGIT_PRIORITY |-> 40, DIGIT_MIDPRIORITY |-> 34,
            DIGIT_SUBPRIORITY |-> 27]

RECURSIVE SumW(_)
SumW(calls) == IF calls = << >> THEN 0 ELSE Head(calls).w + SumW(Tail(calls))

\* C1: whenever the displayed hour has tens digit 0, the hour-ones digit is
\* assigned the widest size class (40 px) and both minute digits the
\* mid-width class, in 12-hour and in 24-hour mode.
C1_SingleDigitHourClasses ==
    (frame.drawn /\ ShownHour < 10) =>
        /\ frame.loc.type.hour_ones = "DIGIT_PRIORITY"
        /\ frame.loc.type.minute_tens = "DIGIT_MIDPRIORITY"
        /\ frame.loc.type.minute_ones = "DIGIT_MIDPRIORITY"
        /\ CallsOf("hour_ones")[1].w = 40
        /\ \A t \in DigitTypes : get_digit_width(t) <= 40
        /\ CallsOf("minute_tens")[1].w = 34
        /\ CallsOf("minute_ones")[1].w = 34
        /\ \E t \in DigitTypes : get_digit_width(t) < 34

C1_Witness ==
    /\ frame.drawn
    /\ ~s_settings.use_24_hour_format /\ ~clock_24h
    /\ frame.tick_time.tm_hour = 21 /\ frame.tick_time.tm_min = 5
    /\ CallsOf("hour_ones")[1].arg = 9
    /\ CallsOf("hour_ones")[1].w = 40
    /\ CallsOf("minute_ones")[1].w = 34

\* C2: whenever the displayed hour has a nonzero tens digit, both hour
\* digits are assigned a class narrower than the widest, both minute digits
\* the narrowest class whatever the minute, and for hour 11 both hour
\* digits the narrowest (subpriority) class.
C2_TwoDigitHourClasses ==
    (frame.drawn /\ ShownHour >= 10) =>
        /\ ClassPx[frame.loc.type.hour_tens] < 40
        /\ ClassPx[frame.loc.type.hour_ones] < 40
        /\ CallsOf("hour_tens")[1].w < 40
        /\ CallsOf("hour_ones")[1].w < 40
        /\ frame.loc.type.minute_tens = "DIGIT_SUBPRIORITY"
        /\ frame.loc.type.minute_ones = "DIGIT_SUBPRIORITY"
        /\ CallsOf("minute_tens")[1].w = 27
        /\ CallsOf("minute_ones")[1].w = 27
        /\ \A t \in DigitTypes : get_digit_width(t) >= 27
        /\ ShownHour = 11 =>
             /\ frame.loc.type.hour_tens = "DIGIT_SUBPRIORITY"
             /\ frame.loc.type.hour_ones = "DIGIT_SUBPRIORITY"
             /\ CallsOf("hour_tens")[1].w = 27
             /\ CallsOf("hour_ones")[1].w = 27

C2_Witness ==
    /\ frame.drawn
    /\ ~s_settings.use_24_hour_format /\ ~clock_24h
    /\ frame.tick_time.tm_hour = 23 /\ frame.tick_time.tm_min = 40
    /\ ShownHour = 11
    /\ CallsOf("hour_tens")[1].w = 27
    /\ CallsOf("minute_tens")[1].w = 27

\* C3: total_width is the sum of the widths of the classes assigned to the
\* glyphs that are present, plus 2 px after every glyph but the last and
\* after the colon, plus the 8 px colon; and the draw pass ends, after the
\* last glyph, at start_x + total_width.
C3_WidthPassMatchesDrawPass ==
    frame.drawn =>
        LET glyphs == GlyphCalls
            n      == Len(glyphs)
            last   == glyphs[n]
        IN  /\ n = IF ShownHour >= 10 THEN 4 ELSE 3
            /\ \A i \in 1..n :
                  glyphs[i].w = ClassPx[frame.loc.type[glyphs[i].slot]]
            /\ frame.loc.total_width = SumW(glyphs) + 2 * (n - 1) + 2 + 8
            /\ glyphs[1].x = frame.loc.start_x
            /\ last.x = frame.loc.current_x
            /\ last.x + last.w = frame.loc.start_x + frame.loc.total_width
            /\ \A i \in 1..(n - 1) :
                  glyphs[i + 1].x = glyphs[i].x + glyphs[i].w + 2
                      + (IF glyphs[i].slot = "hour_ones" THEN 8 + 2 ELSE 0)

C3_Witness ==
    /\ frame.drawn
    /\ frame.tick_time.tm_hour = 12 /\ frame.tick_time.tm_min = 34
    /\ Len(GlyphCalls) = 4
    /\ frame.loc.total_width = 27 + 2 + 27 + 2 + 8 + 2 + 27 + 2 + 27
    /\ GlyphCalls[4].x + 27 = frame.loc.start_x + frame.loc.total_width

\* C4: with a displayed hour below 10 no hour-tens glyph is drawn, it adds
\* neither width nor spacing to total_width and the hour-ones glyph is
\* drawn at start_x; otherwise the hour-tens glyph is drawn at start_x and
\* adds its width plus 2 px.
C4_LeadingZeroOmitted ==
    frame.drawn =>
        LET ones == CallsOf("hour_ones")[1]
            rest == ones.w + 2 + 8 + 2 + CallsOf("minute_tens")[1].w + 2
                    + CallsOf("minute_ones")[1].w
        IN  IF ShownHour < 10
            THEN /\ CallsOf("hour_tens") = << >>
                 /\ frame.loc.total_width = rest
                 /\ ones.x = frame.loc.start_x
            ELSE /\ Len(CallsOf("hour_tens")) = 1
                 /\ CallsOf("hour_tens")[1].x = frame.loc.start_x
                 /\ CallsOf("hour_tens")[1].arg = ShownHour \div 10
                 /\ frame.loc.total_width = CallsOf("hour_tens")[1].w + 2 + rest
                 /\ ones.x = frame.loc.start_x + CallsOf("hour_tens")[1].w + 2

C4_Witness ==
    /\ frame.drawn
    /\ s_settings.use_24_hour_format
    /\ frame.tick_time.tm_hour = 0
    /\ CallsOf("hour_tens") = << >>
    /\ CallsOf("hour_ones")[1].x = frame.loc.start_x
    /\ CallsOf("hour_ones")[1].arg = 0

\* C5: start_x is (screen_width - total_width) / 2 in integer division, and
\* the block is centred: start_x + total_width and screen_width - start_x
\* differ by at most 1.
C5_Centred ==
    frame.drawn =>
        LET free == bounds.w - frame.loc.total_width
            left == frame.loc.start_x
            gap  == (bounds.w - left) - (left + frame.loc.total_width)
        IN  /\ free >= 0
            /\ 2 * left <= free /\ free < 2 * left + 2
            /\ gap \in {-1, 0, 1}
            /\ CallsOf("time_rect")[1].x = left

C5_Witness ==
    /\ frame.drawn
    /\ bounds.w = 145
    /\ frame.loc.start_x + frame.loc.total_width # bounds.w - frame.loc.start_x
    /\ frame.loc.start_x = (145 - frame.loc.total_width) \div 2

----------------------------------------------------------------------------
(* Claims about the top corners, checked under SpecWidgets *)

LeftCorner == frame.corners[1]

RightCorner == frame.corners[2]

KnownWidgets == {WIDGET_MONTH_DATE, WIDGET_DAY_DATE, WIDGET_AM_PM_INDICATOR,
                 WIDGET_BATTERY_INDICATOR, WIDGET_STEP_COUNT}

DateWidgets == {WIDGET_MONTH_DATE, WIDGET_DAY_DATE}

\* the number a date widget shows
DateValue(corner) ==
    IF corner.widget_type = WIDGET_MONTH_DATE
    THEN frame.tick_time.tm_mon + 1
    ELSE frame.tick_time.tm_mday

IsFullWidth(c) == c.sheet = "date" /\ c.w = 20

IsHalfWidth(c) == c.sheet = "date_half" /\ c.w = 10

\* the glyph sequence the mixed-width rule asks for
MixedWidthRule(value, calls) ==
    LET tens == value \div 10
        ones == value % 10
    IN  IF value < 10
        THEN Len(calls) = 1 /\ calls[1].arg = value /\ IsFullWidth(calls[1])
        ELSE /\ Len(calls) = 2
             /\ calls[1].arg = tens /\ calls[2].arg = ones
             /\ IsFullWidth(calls[2])
             /\ IF tens = ones THEN IsFullWidth(calls[1])
                ELSE IF tens \in {1, 2, 3} THEN IsHalfWidth(calls[1])
                ELSE IsFullWidth(calls[1])

\* the glyphs the earlier revision drew for one corner
LegacyCallsOf(slot) ==
    SelectSeq(legacy.frame.calls, LAMBDA c : c.slot = slot)

LegacyDateSheets ==
    legacy.sprites["date"].loaded /\ legacy.sprites["date_half"].loaded

\* C6: every day of the month and every month number is rendered by the
\* mixed-width rule: one full-width glyph below 10; otherwise two glyphs,
\* both full-width when tens equals ones, a half-width tens glyph and a
\* full-width ones glyph when tens is 1, 2 or 3 and differs from ones, and
\* two full-width glyphs otherwise.
C6_MixedWidthGlyphs ==
    /\ frame.drawn =>
          \A i \in 1..2 :
             frame.corners[i].widget_type \in DateWidgets =>
                MixedWidthRule(DateValue(frame.corners[i]),
                               frame.corners[i].calls)
    /\ (legacy.frame.drawn /\ LegacyDateSheets) =>
          /\ MixedWidthRule(legacy.frame.tick_time.tm_mday,
                            LegacyCallsOf("top_right"))
          /\ MixedWidthRule(legacy.frame.tick_time.tm_mon + 1,
                            LegacyCallsOf("top_left"))

\* C7: for every two-digit day of the month or month number the second
\* glyph is drawn at the first glyph's x plus the first glyph's width plus
\* exactly 2 px.
C7_SecondGlyphOffset ==
    /\ frame.drawn =>
          \A i \in 1..2 :
             (/\ frame.corners[i].widget_type \in DateWidgets
              /\ Len(frame.corners[i].calls) = 2) =>
                frame.corners[i].calls[2].x
                    = frame.corners[i].calls[1].x
                      + frame.corners[i].calls[1].w + 2
    /\ legacy.frame.drawn =>
          \A slot \in {"top_left", "top_right"} :
             Len(LegacyCallsOf(slot)) = 2 =>
                LegacyCallsOf(slot)[2].x
                    = LegacyCallsOf(slot)[1].x + LegacyCallsOf(slot)[1].w + 2

\* the width a corner's resolver contributed: none when it computed none
ContributedWidth(corner) ==
    IF corner.has_width THEN corner.widget_width ELSE 0

\* C8 as claimed: a corner whose widget type is 'none' or outside the five
\* known types contributes a width of 0 and issues no draw call.
C8_UnknownContributesZero ==
    frame.drawn =>
       \A i \in 1..2 :
          frame.corners[i].widget_type \notin KnownWidgets =>
             /\ ContributedWidth(frame.corners[i]) = 0
             /\ frame.corners[i].calls = << >>

\* C8 as amended: a corner whose widget type is 'none' or outside the five
\* known types issues no draw call; 'none' returns before any width or
\* position is computed, and an unknown type in the right corner is given
\* the default width of 30 px, which positions nothing.
C8_UnknownDrawsNothing ==
    frame.drawn =>
       \A i \in 1..2 :
          LET corner == frame.corners[i]
              type   == IF i = 1 THEN s_settings.widget_config.top_left_widget
                        ELSE s_settings.widget_config.top_right_widget
          IN  (~dirty /\ type \notin KnownWidgets) =>
                 /\ corner.widget_type = type
                 /\ corner.calls = << >>
                 /\ CallsOf(IF i = 1 THEN "top_left" ELSE "top_right") = << >>
                 /\ type = 0 => corner.skipped /\ ~corner.has_width
                 /\ (type # 0 /\ i = 2) =>
                       /\ corner.has_width
                       /\ corner.widget_width = 30
                       /\ corner.x = bounds.w - 30 - 10
                 /\ (type # 0 /\ i = 1) => corner.x = 10 /\ ~corner.has_width

C8_Witness ==
    /\ frame.drawn /\ ~dirty
    /\ s_settings.widget_config.top_right_widget > 5
    /\ RightCorner.widget_type > 5
    /\ RightCorner.widget_width = 30
    /\ RightCorner.calls = << >>
    /\ LeftCorner.calls # << >>

\* the left and right edge of what a list of calls painted
LeftEdge(calls) ==
    CHOOSE l \in {calls[i].x : i \in 1..Len(calls)} :
        \A i \in 1..Len(calls) : l <= calls[i].x

RightEdge(calls) ==
    CHOOSE r \in {calls[i].x + calls[i].w : i \in 1..Len(calls)} :
        \A i \in 1..Len(calls) : r >= calls[i].x + calls[i].w

\* the width of the glyph sequence a list of calls painted
Footprint(calls) == RightEdge(Painted(calls)) - LeftEdge(Painted(calls))

C10_CornerAnchors ==
    frame.drawn =>
       /\ LeftCorner.widget_type \in KnownWidgets =>
             /\ Painted(LeftCorner.calls) # << >>
             /\ LeftEdge(Painted(LeftCorner.calls)) = 10
             /\ LeftCorner.calls[1].x = 10
             /\ \A i \in 1..Len(LeftCorner.calls) : LeftCorner.calls[i].y = 10
       /\ RightCorner.widget_type \in KnownWidgets =>
             /\ Painted(RightCorner.calls) # << >>
             /\ RightCorner.calls[1].x
                   = bounds.w - RightCorner.widget_width - 10
             /\ RightCorner.calls[1].x
                   = bounds.w - Footprint(RightCorner.calls) - 10
             /\ LeftEdge(Painted(RightCorner.calls)) = RightCorner.calls[1].x
             /\ RightEdge(Painted(RightCorner.calls)) = bounds.w - 10
             /\ \A i \in 1..Len(RightCorner.calls) :
                   RightCorner.calls[i].y = 10

C10_Witness ==
    /\ frame.drawn
    /\ bounds.w = 144
    /\ frame.tick_time.tm_mon = 11
    /\ RightCorner.widget_type = WIDGET_MONTH_DATE
    /\ LeftCorner.widget_type = WIDGET_STEP_COUNT
    /\ RightCorner.calls[1].x = 90
    /\ RightCorner.calls[2].x + RightCorner.calls[2].w = 134
    /\ LeftCorner.calls[1].x = 10

----------------------------------------------------------------------------
(* Claims about the order of a redraw, checked under SpecMarks *)

\* where a call stands in the order of a redraw: the three marks, the
\* rectangle under the digits, then the digits and the colon
Rank(slot) ==
    CASE slot = "hour_mark"   -> 1
      [] slot = "minute_mark" -> 2
      [] slot = "second_mark" -> 3
      [] slot = "time_rect"   -> 4
      [] slot \in {"hour_tens", "hour_ones", "colon", "minute_tens",
                   "minute_ones"} -> 5
      [] OTHER -> 0

\* the calls of the last frame that belong to the digit block
BlockCalls == SelectSeq(frame.calls, LAMBDA c : Rank(c.slot) = 5)

\* C11: in every redraw the hour mark is issued before the minute mark,
\* the minute mark before the second mark, all marks before the one
\* background-coloured rectangle at x = start_x of width total_width and
\* glyph height, and that rectangle before every digit glyph and the colon,
\* all of which lie inside it; a mark is issued when its switch is on.
C11_DrawOrder ==
    frame.drawn =>
       LET calls == frame.calls
           rect  == CallsOf("time_rect")[1]
       IN  /\ \A i, j \in 1..Len(calls) :
                 (i < j /\ Rank(calls[i].slot) > 0 /\ Rank(calls[j].slot) > 0)
                    => Rank(calls[i].slot) <= Rank(calls[j].slot)
           /\ \A slot \in {"hour_mark", "minute_mark", "second_mark",
                            "time_rect"} : Len(CallsOf(slot)) <= 1
           /\ Len(CallsOf("time_rect")) = 1
           /\ rect.op = "fill_rect"
           /\ rect.x = frame.loc.start_x
           /\ rect.w = frame.loc.total_width
           /\ rect.h = 18
           /\ rect.y = frame.loc.y_pos
           /\ rect.color = frame.calls[1].color
           /\ frame.calls[1].slot = "background"
           /\ Len(BlockCalls) \in {5, 6}
           /\ \A i \in 1..Len(BlockCalls) :
                 /\ rect.x <= BlockCalls[i].x
                 /\ BlockCalls[i].x + BlockCalls[i].w <= rect.x + rect.w
                 /\ rect.y <= BlockCalls[i].y
                 /\ BlockCalls[i].y + BlockCalls[i].h <= rect.y + rect.h
           /\ ~dirty =>
                 /\ Len(CallsOf("hour_mark")) = 1
                        <=> s_settings.show_hour_minute_dots
                 /\ Len(CallsOf("minute_mark")) = 1
                        <=> s_settings.show_hour_minute_dots
                 /\ Len(CallsOf("second_mark")) = 1
                        <=> s_settings.show_second_dot

C11_Witness ==
    /\ frame.drawn
    /\ Len(frame.calls) >= 11
    /\ frame.calls[1].slot = "background"
    /\ frame.calls[2].slot = "hour_mark"
    /\ frame.calls[3].slot = "minute_mark"
    /\ frame.calls[4].slot = "second_mark"
    /\ frame.calls[5].slot = "time_rect"
    /\ frame.calls[6].slot = "hour_tens"
    /\ frame.calls[5].color = "GColorBlack"
    /\ frame.calls[4].color = "GColorWhite"

----------------------------------------------------------------------------
(* Claims about debug mode, checked under SpecDebug *)

\* the index into the table of debug times that a redraw would use
TableIndex(counter) == counter % 20

\* C12: with debug mode active every debug timer callback leaves the debug
\* counter in 0..99, and the callback taken when the counter is 99 sets it
\* to 0.
C12_CounterWrapsAt99 ==
    [][(s_settings.debug_mode /\ s_debug_counter' # s_debug_counter) =>
          /\ s_debug_counter \in 0..99
          /\ s_debug_counter' \in 0..99
          /\ s_debug_counter = 99 => s_debug_counter' = 0]_vars

\* C13: with debug mode active every debug timer callback, the one that
\* resets the counter included, moves the table index to
\* (index before + 1) mod 20, so that no entry is shown on two consecutive
\* ticks and none is skipped.
C13_NextTableEntry ==
    [][(s_settings.debug_mode /\ s_debug_counter' # s_debug_counter) =>
          TableIndex(s_debug_counter')
              = (TableIndex(s_debug_counter) + 1) % 20]_vars

\* C14: with debug mode active the digit readout, the day abbreviation and
\* the day-of-month and month numbers of a redraw are computed from the
\* debug counter: whatever the wall clock says, the frame is the same.
C14_NothingFromTheClock ==
    (frame.drawn /\ ~dirty /\ s_settings.debug_mode) =>
       /\ frame.loc.minute = DebugTable[TableIndex(s_debug_counter) + 1][2]
       /\ frame.loc.hour =
             DisplayHour(DebugTable[TableIndex(s_debug_counter) + 1][1],
                         frame.loc.use_24_hour)
       /\ frame.loc.day_of_week = (s_debug_counter \div 5) % 7
       /\ \A clock \in DebugClocks :
             /\ widgets_draw_corner(CORNER_TOP_LEFT, clock).calls
                   = LeftCorner.calls
             /\ widgets_draw_corner(CORNER_TOP_RIGHT, clock).calls
                   = RightCorner.calls

----------------------------------------------------------------------------
(* Claims about the time sample of a redraw, checked under SpecMarks *)

\* the hour of a 12-hour dial for a displayed hour: 12, 1, ..., 11
DialHour(hour) == ((hour + 11) % 12) + 1

\* C15: in every redraw the hour and minute that position the hour mark
\* and the minute mark are the hour and minute the digits show.
C15_OneTimeSample ==
    (frame.drawn /\ CallsOf("hour_mark") # << >>) =>
       /\ CallsOf("minute_mark")[1].arg = 12 * frame.loc.minute - 180
       /\ CallsOf("hour_mark")[1].arg
             = 60 * DialHour(frame.loc.hour) + frame.loc.minute - 180

----------------------------------------------------------------------------
(* Claims about the digit atlas, checked under SpecTime *)

\* C16: for every digit 0..9 in every size class the atlas cell is row 3,
\* column 0 for digit 0 and row (d-1)/3, column (d-1) mod 3 otherwise;
\* every cell lies inside the 3-column by 4-row sheet, and distinct digits
\* have distinct cells.
C16_AtlasCell ==
    /\ frame.drawn =>
          \A i \in 1..Len(GlyphCalls) :
             LET c == GlyphCalls[i]
                 d == c.arg
             IN  /\ d \in 0..9
                 /\ c.row = IF d = 0 THEN 3 ELSE (d - 1) \div 3
                 /\ c.col = IF d = 0 THEN 0 ELSE (d - 1) % 3
                 /\ c.row \in 0..3 /\ c.col \in 0..2
                 /\ (c.col + 1) * c.w <= sprites[c.sheet].w
                 /\ (c.row + 1) * c.h <= sprites[c.sheet].h
                 /\ c.painted
                 /\ \A j \in 1..Len(GlyphCalls) :
                       (/\ GlyphCalls[j].sheet = c.sheet
                        /\ GlyphCalls[j].row = c.row
                        /\ GlyphCalls[j].col = c.col) => GlyphCalls[j].arg = d
    /\ \A type \in DigitTypes : \A d1, d2 \in 0..9 :
          LET c1 == draw_digit("hour_ones", d1, type, 0, 0)
              c2 == draw_digit("hour_ones", d2, type, 0, 0)
          IN  /\ c1.row \in 0..3 /\ c1.col \in 0..2
              /\ (c1.row = c2.row /\ c1.col = c2.col) => d1 = d2

C16_Witness ==
    /\ frame.drawn
    /\ s_settings.use_24_hour_format
    /\ frame.tick_time.tm_hour = 0 /\ frame.tick_time.tm_min = 49
    /\ CallsOf("hour_ones")[1].sheet = "priority"
    /\ CallsOf("hour_ones")[1].row = 3 /\ CallsOf("hour_ones")[1].col = 0
    /\ CallsOf("minute_tens")[1].row = 1 /\ CallsOf("minute_tens")[1].col = 0
    /\ CallsOf("minute_ones")[1].row = 2 /\ CallsOf("minute_ones")[1].col = 2
    /\ CallsOf("minute_ones")[1].painted

----------------------------------------------------------------------------
(* Claims about missing sheets, checked under SpecMissing *)

\* the sheets that could not be loaded
AbsentSheets == SheetNames \ resources

\* Where each call of a frame belongs when every sheet is loaded, from the
\* clock sample, the settings and the screen alone: the digits and the
\* colon, left to right
LayoutOfDigits ==
    LET widths == IF ShownHour < 10 THEN << 40, 34, 34 >>
                  ELSE << 27, 27, 27, 27 >>
        total  == IF ShownHour < 10 THEN 40 + 2 + 8 + 2 + 34 + 2 + 34
                  ELSE 27 + 2 + 27 + 2 + 8 + 2 + 27 + 2 + 27
        x0     == (bounds.w - total) \div 2
        y0     == (bounds.h - 18) \div 2
        xs     == IF ShownHour < 10 THEN << x0, x0 + 52, x0 + 88 >>
                  ELSE << x0, x0 + 29, x0 + 68, x0 + 97 >>
        colon  == IF ShownHour < 10 THEN x0 + 44 ELSE x0 + 60
    IN  /\ Len(GlyphCalls) = Len(widths)
        /\ \A i \in 1..Len(widths) :
              /\ GlyphCalls[i].x = xs[i] /\ GlyphCalls[i].y = y0
              /\ GlyphCalls[i].w = widths[i] /\ GlyphCalls[i].h = 18
        /\ frame.loc.total_width = total /\ frame.loc.start_x = x0
        /\ Len(CallsOf("time_rect")) = 1
        /\ CallsOf("time_rect")[1].x = x0 /\ CallsOf("time_rect")[1].y = y0
        /\ CallsOf("time_rect")[1].w = total
        /\ Len(CallsOf("colon")) = 2
        /\ CallsOf("colon")[1].x = colon /\ CallsOf("colon")[1].y = y0 + 4
        /\ CallsOf("colon")[2].x = colon /\ CallsOf("colon")[2].y = y0 + 10

\* the glyphs of one corner: how many, and where
LayoutOfCorner(corner, left) ==
    LET value == IF corner.widget_type = WIDGET_MONTH_DATE
                 THEN frame.tick_time.tm_mon + 1
                 ELSE frame.tick_time.tm_mday
        two   == corner.widget_type \in DateWidgets /\ value >= 10
        width == IF corner.widget_type \in DateWidgets
                 THEN (IF two THEN 44 ELSE 20)
                 ELSE IF corner.widget_type = WIDGET_AM_PM_INDICATOR THEN 20
                 ELSE 44
        x0    == IF left THEN 10 ELSE bounds.w - width - 10
    IN  /\ Len(corner.calls) = IF two THEN 2 ELSE 1
        /\ corner.calls[1].x = x0 /\ corner.calls[1].y = 10
        /\ two => corner.calls[2].x = x0 + 24 /\ corner.calls[2].y = 10

\* the letters of the day in the bottom corners
LayoutOfDay ==
    LET letters == CallsOf("day_char")
        xs == IF s_settings.use_two_letter_day
              THEN << 10, bounds.w - 30 >>
              ELSE << 10, (bounds.w - 20) \div 2, bounds.w - 30 >>
    IN  /\ Len(letters) = Len(xs)
        /\ \A i \in 1..Len(xs) :
              letters[i].x = xs[i] /\ letters[i].y = bounds.h - 24

\* a redraw that did something: a new frame, or the dirty flag cleared
RedrawStep == frame' # frame \/ (dirty /\ ~dirty')

\* C17: with any one sprite sheet absent, every draw that needs that sheet
\* is skipped, every other draw call of the frame is issued and painted at
\* the position it has when all sheets are loaded, and the redraw changes
\* no program state.
C17_MissingSheet ==
    /\ [](frame.drawn =>
            /\ \A i \in 1..Len(frame.calls) :
                  LET c == frame.calls[i]
                  IN  c.painted <=> (c.op = "bitmap" => c.sheet \in resources)
            /\ LayoutOfDigits
            /\ LayoutOfCorner(LeftCorner, TRUE)
            /\ LayoutOfCorner(RightCorner, FALSE)
            /\ "day" \in resources => LayoutOfDay
            /\ Len(CallsOf("background")) = 1
            /\ Len(CallsOf("hour_mark")) = 1
            /\ Len(CallsOf("minute_mark")) = 1)
    /\ [][RedrawStep =>
            UNCHANGED << s_settings, persist, s_settings_dark_mode,
                         s_widget_config, s_battery_percent, s_step_count,
                         s_step_goal, sprites, s_debug_counter,
                         s_debug_timer, s_current, loaded >>]_vars

C17_Witness ==
    /\ frame.drawn
    /\ AbsentSheets = {"priority"}
    /\ bounds.w = 144
    /\ frame.tick_time.tm_hour = 9 /\ frame.tick_time.tm_min = 5
    /\ ~CallsOf("hour_ones")[1].painted
    /\ CallsOf("minute_tens")[1].painted
    /\ CallsOf("minute_tens")[1].x = 11 + 52
    /\ LeftCorner.calls[1].painted
    /\ Len(Painted(CallsOf("day_char"))) = 3

----------------------------------------------------------------------------
(* Claims about clipped sheets, checked under SpecClipped *)

\* the cell of a glyph call lies outside what its sheet reports
OutsideSheet(c) ==
    \/ c.col >= sprites[c.sheet].w \div c.w
    \/ c.row >= sprites[c.sheet].h \div c.h

\* C18: when a digit glyph is rejected because its cell lies outside the
\* sheet's reported dimensions, only that glyph is omitted: total_width,
\* start_x and the x position of the colon and of every later glyph are
\* the same as when the glyph is drawn.
C18_RejectedGlyphKeepsLayout ==
    frame.drawn =>
       /\ \A i \in 1..Len(GlyphCalls) :
             GlyphCalls[i].painted <=> ~OutsideSheet(GlyphCalls[i])
       /\ \A i \in 1..Len(frame.calls) :
             frame.calls[i].op # "bitmap" \/ frame.calls[i].slot = "day_char"
                 => frame.calls[i].painted
       /\ LayoutOfDigits

C18_Witness ==
    /\ frame.drawn
    /\ build.short_sheets = {"priority", "subpriority"}
    /\ bounds.w = 144
    /\ s_settings.use_24_hour_format
    /\ frame.tick_time.tm_hour = 0 /\ frame.tick_time.tm_min = 13
    /\ OutsideSheet(CallsOf("hour_ones")[1])
    /\ ~CallsOf("hour_ones")[1].painted
    /\ CallsOf("colon")[1].x = 11 + 44
    /\ CallsOf("minute_tens")[1].painted
    /\ CallsOf("minute_tens")[1].x = 11 + 52
    /\ frame.loc.total_width = 122

----------------------------------------------------------------------------
(* Claims about the position of the second mark, checked under SpecMarks *)

\* the second a second mark was drawn for, from its angle on the dial
SecondOf(c) == (c.arg + 180) \div 12

\* the squared distance, in pixels, of a call's point from the centre of
\* the screen
Distance2(c) ==
    LET dx == c.x - bounds.w \div 2
        dy == c.y - bounds.h \div 2
    IN  dx * dx + dy * dy

\* C19 as stated: for every second 0..59 the second mark lies on the circle
\* of radius 50 around the screen centre to within the error of the trig
\* approximation, here taken as generously as half a pixel (an angle error
\* of 0.01 rad at radius 50): 49.5 <= distance <= 50.5; and at second 0 it
\* lies at (center_x, center_y - 50).
C19_OnCircleWithinTrigError ==
    frame.drawn =>
       \A i \in 1..Len(CallsOf("second_mark")) :
          LET c == CallsOf("second_mark")[i]
          IN  /\ 99 * 99 <= 4 * Distance2(c)
              /\ 4 * Distance2(c) <= 101 * 101
              /\ SecondOf(c) = 0 =>
                    /\ c.x = bounds.w \div 2
                    /\ c.y = bounds.h \div 2 - 50

\* C19, amended: for every second 0..59 the second mark is drawn at a
\* whole pixel inside or on the circle of radius 50 around the screen
\* centre and less than one pixel from it (49 < distance <= 50), the
\* offsets being truncated toward zero; at seconds 0, 15, 30 and 45 it
\* lies on the circle, at second 0 at (center_x, center_y - 50).
C19_WithinOnePixelInside ==
    frame.drawn =>
       \A i \in 1..Len(CallsOf("second_mark")) :
          LET c == CallsOf("second_mark")[i]
          IN  /\ SecondOf(c) \in 0..59
              /\ 49 * 49 < Distance2(c)
              /\ Distance2(c) <= 50 * 50
              /\ SecondOf(c) % 15 = 0 => Distance2(c) = 50 * 50
              /\ SecondOf(c) = 0 =>
                    /\ c.x = bounds.w \div 2
                    /\ c.y = bounds.h \div 2 - 50

C19_Witness ==
    /\ frame.drawn
    /\ bounds.w = 144
    /\ Len(CallsOf("second_mark")) = 1
    /\ SecondOf(CallsOf("second_mark")[1]) = 5
    /\ CallsOf("second_mark")[1].x = 72 + 24
    /\ CallsOf("second_mark")[1].y = 84 - 43

----------------------------------------------------------------------------
(* Claims about the AM/PM indicator, checked under SpecIndicator *)

\* the number a corner's date glyphs show, -1 when it shows none
ShownNumber(corner) ==
    LET calls == Painted(corner.calls)
    IN  IF calls = << >> \/ \E i \in 1..Len(calls) : calls[i].sheet # "date"
        THEN -1
        ELSE IF Len(calls) = 1 THEN calls[1].arg
        ELSE 10 * calls[1].arg + calls[2].arg

\* C20: whenever 24-hour format is in effect, the AM/PM indicator is not
\* drawn and the current month number is drawn in its place.
C20_MonthReplacesIndicator ==
    (frame.drawn /\ frame.loc.use_24_hour) =>
       \A corner \in {LeftCorner, RightCorner} :
          corner.widget_type = WIDGET_AM_PM_INDICATOR =>
             /\ \A i \in 1..Len(corner.calls) :
                   ~(corner.calls[i].sheet = "am_pm" /\ corner.calls[i].painted)
             /\ ShownNumber(corner) = frame.tick_time.tm_mon + 1

----------------------------------------------------------------------------
(* Claims about the stored configuration, checked under SpecConfig *)

\* C21: after init and any sequence of configuration messages, whether the
\* step goal was sent as a string or as an integer and whatever its value,
\* the step goal of the settings record is greater than 0.
C21_StoredStepGoalPositive == s_settings.step_goal > 0

\* the corner widgets a frame was drawn with
FrameWidgets(f) ==
    [top_left_widget  |-> f.corners[1].widget_type,
     top_right_widget |-> f.corners[2].widget_type]

\* C22: a redraw never observes a partially applied configuration.  After
\* init and after every configuration message the widget module's widget
\* configuration equals settings.widget_config and its dark-mode flag equals
\* settings.dark_mode, and every redraw draws the corners of
\* settings.widget_config on the background of settings.dark_mode.
C22_RedrawSeesWholeConfiguration ==
    /\ [](/\ s_widget_config = s_settings.widget_config
          /\ s_settings_dark_mode = s_settings.dark_mode)
    /\ [][RedrawStep =>
            /\ FrameWidgets(frame') = s_settings.widget_config
            /\ frame'.calls[1].color = BackgroundColor(s_settings.dark_mode)
            /\ s_widget_config = s_settings.widget_config
            /\ s_settings_dark_mode = s_settings.dark_mode]_vars

\* a redraw after the message that carries every key, received in light mode
C22_Witness ==
    /\ frame.drawn /\ ~dirty /\ persist.exists
    /\ s_settings.dark_mode /\ s_settings_dark_mode
    /\ s_settings.step_goal = 9000
    /\ s_widget_config = [top_left_widget  |-> WIDGET_BATTERY_INDICATOR,
                          top_right_widget |-> WIDGET_MONTH_DATE]
    /\ FrameWidgets(frame) = s_widget_config
    /\ frame.calls[1].color = "GColorBlack"

\* C23: a configuration message that does not carry the TopLeftWidget
\* (TopRightWidget) key sets that corner to the default widget, the one of
\* get_default_widget_config.
C23_AbsentWidgetKeyGivesDefault ==
    [][\A iter \in ConfigMessages :
          prv_inbox_received_handler({iter}) =>
             /\ ~iter["TopLeftWidget"].present =>
                   s_settings'.widget_config.top_left_widget
                       = get_default_widget_config.top_left_widget
             /\ ~iter["TopRightWidget"].present =>
                   s_settings'.widget_config.top_right_widget
                       = get_default_widget_config.top_right_widget]_vars

\* the settings a message changes only when it carries their key
KeyedSettings ==
    [DarkMode           |-> "dark_mode",
     Use24HourFormat    |-> "use_24_hour_format",
     UseTwoLetterDay    |-> "use_two_letter_day",
     ShowSecondDot      |-> "show_second_dot",
     ShowHourMinuteDots |-> "show_hour_minute_dots",
     StepGoal           |-> "step_goal"]

\* C24: a configuration message changes dark mode, the 24-hour format, the
\* two-letter day, the second dot, the hour and minute dots and the step
\* goal only when it carries the corresponding key; each of these settings
\* whose key is absent keeps the value it had before the message.
C24_AbsentKeyKeepsSetting ==
    [][\A iter \in ConfigMessages :
          prv_inbox_received_handler({iter}) =>
             \A key \in DOMAIN KeyedSettings :
                ~iter[key].present =>
                   s_settings'[KeyedSettings[key]]
                       = s_settings[KeyedSettings[key]]]_vars

\* the stored step goal, which no message carries, is still there after a
\* message has switched dark mode off and the 24-hour format on
C24_Witness ==
    /\ persist.exists
    /\ ~s_settings.dark_mode /\ s_settings.use_24_hour_format
    /\ s_settings.step_goal = StoredStepGoal
    /\ s_settings.use_two_letter_day /\ s_settings.show_second_dot
    /\ persist.data.step_goal = StoredStepGoal

----------------------------------------------------------------------------
(* Claims about the debug switches, checked under SpecDebugKey *)

----------------------------------------------------------------------------
(* Claims about the step widget, checked under SpecSteps *)

\* C26: for every step goal greater than 0 and every step count >= 0, the
\* frame index of the step widget is in 0..8, is 0 when the step count is
\* 0 (top frame = no steps), is 8 exactly when the step count is at least
\* the goal, and is non-decreasing in the step count.
C26_StepFrameIndex ==
    [][(/\ RedrawStep
        /\ frame'.corners[1].widget_type = WIDGET_STEP_COUNT
        /\ s_step_goal > 0 /\ s_step_count >= 0) =>
          LET frame_index == frame'.corners[1].calls[1].arg
          IN  /\ frame_index \in 0..8
              /\ s_step_count = 0 => frame_index = 0
              /\ frame_index = 8 <=> s_step_count >= s_step_goal
              /\ \A fewer \in StepCounts :
                    fewer <= s_step_count =>
                       StepsFrame(fewer, s_step_goal) <= frame_index]_vars

\* C27: after init and any sequence of configuration messages, the step
\* goal the step widget uses is greater than 0, and it equals
\* settings.step_goal whenever settings.step_goal is greater than 0.
C27_WidgetGoalPositive ==
    /\ s_step_goal > 0
    /\ s_settings.step_goal > 0 => s_step_goal = s_settings.step_goal

\* a goal of 45 was taken from a message, and the widget has kept it over
\* a later message whose goal is not positive
C27_Witness ==
    /\ loaded /\ persist.exists
    /\ s_settings.step_goal <= 0
    /\ persist.data.step_goal = s_settings.step_goal
    /\ s_step_goal = 45

----------------------------------------------------------------------------
(* Claims about the sheets and dark mode, checked under SpecMissing *)

\* C28: after init, window load and any sequence of configuration
\* messages, every loaded sprite sheet (time digits, day letters and the
\* widget sheets) has its palette inverted exactly when settings.dark_mode
\* is true: a message that changes dark mode reloads the sheets and
\* inverts them anew, a message that does not leaves them untouched.
C28_SheetsFollowDarkMode ==
    /\ [](loaded =>
             \A id \in SheetNames :
                sprites[id].loaded =>
                   (sprites[id].inverted <=> s_settings.dark_mode))
    /\ [][\A iter \in MissingMessages :
             prv_inbox_received_handler({iter}) =>
                IF s_settings'.dark_mode = s_settings.dark_mode
                THEN sprites' = sprites
                ELSE \A id \in SheetNames :
                        /\ sprites'[id].loaded <=> id \in resources
                        /\ sprites'[id].loaded =>
                              (sprites'[id].inverted
                                  <=> s_settings'.dark_mode)]_vars

\* the watch started in dark mode from the stored record with the 24-hour
\* format, a message has switched dark mode off, and the seven sheets that
\* could be loaded are not inverted
C28_Witness ==
    /\ loaded /\ frame.drawn /\ persist.exists
    /\ s_settings.use_24_hour_format
    /\ ~s_settings.dark_mode /\ ~persist.data.dark_mode
    /\ resources = SheetNames \ {"steps"}
    /\ \A id \in resources : sprites[id].loaded /\ ~sprites[id].inverted
    /\ ~sprites["steps"].loaded

----------------------------------------------------------------------------
(* Claims about the tick service, checked under SpecMarks *)

\* C29: after window load and any sequence of tick callbacks whose
\* units_changed flags include the flag of every field that differs from
\* the tick before, the stored hour, minute and second equal those of the
\* most recent tick (nothing but a tick or the window load writes them),
\* and every tick callback that changes a stored field requests a redraw.
C29_StoredTimeIsLastTick ==
    /\ [][tick_handler =>
             /\ s_current' = [second |-> now.tm_sec, minute |-> now.tm_min,
                              hour |-> now.tm_hour]
             /\ s_current' # s_current => dirty']_vars
    /\ [][s_current' # s_current => (tick_handler \/ main_window_load)]_vars

\* a frame was drawn at 9:59, the clock has turned to 10:00:00 and the tick
\* of that second has stored all three fields and asked for a redraw
C29_Witness ==
    /\ loaded /\ dirty
    /\ frame.drawn /\ frame.tick_time.tm_hour = 9
    /\ now.tm_hour = 10 /\ now.tm_min = 0 /\ now.tm_sec = 0
    /\ s_current = [second |-> 0, minute |-> 0, hour |-> 10]

----------------------------------------------------------------------------
(* Claims about the day abbreviation, checked under SpecDay *)

\* the day letters of a frame, in the order they were drawn
DayChars(f) == SelectSeq(f.calls, LAMBDA c : c.slot = "day_char")

\* C30: for every weekday 0..6 and both abbreviation modes, every character
\* of the abbreviation maps to a sprite index in 0..13 of the day sheet
\* (the unknown-character path is never taken), exactly two characters are
\* placed in two-letter mode, at x = 10 and x = screen width - 30, and
\* exactly three in three-letter mode, at x = 10, (screen width - 20) / 2
\* and screen width - 30, all at y = screen height - 24.
C30_DayLettersPlaced ==
    [][RedrawStep =>
          LET letters == DayChars(frame')
              anchors == IF s_settings.use_two_letter_day
                         THEN << 10, bounds.w - 30 >>
                         ELSE << 10, (bounds.w - 20) \div 2, bounds.w - 30 >>
          IN  /\ frame'.tick_time.tm_wday \in 0..6
              /\ Len(letters) = Len(anchors)
              /\ \A i \in 1..Len(letters) :
                    /\ letters[i].arg \in 0..13
                    /\ letters[i].painted
                    /\ letters[i].row = letters[i].arg \div 4
                    /\ letters[i].col = letters[i].arg % 4
                    /\ letters[i].x = anchors[i]
                    /\ letters[i].y = bounds.h - 24]_vars

\* Thursday in three-letter mode on the 145 px screen, after a message has
\* switched the two-letter mode off: T, H and U at x = 10, 62 and 115
C30_Witness ==
    /\ frame.drawn /\ ~dirty /\ persist.exists
    /\ ~s_settings.use_two_letter_day
    /\ bounds.w = 145
    /\ frame.tick_time.tm_wday = 4
    /\ Len(DayChars(frame)) = 3
    /\ DayChars(frame)[1].arg = 11 /\ DayChars(frame)[1].x = 10
    /\ DayChars(frame)[2].arg = 4 /\ DayChars(frame)[2].x = 62
    /\ DayChars(frame)[3].arg = 12 /\ DayChars(frame)[3].x = 115
    /\ DayChars(frame)[3].y = 144

====
